---- MODULE Spec2Model ----
(***************************************************************************)
(* Model of the Shoonya trading gateway:                                   *)
(*   - src/shoonya_mcp_agent/agent.py : LiveMarketDataResource (the tick   *)
(*     cache behind an asyncio.Lock) and ShoonyaMCPAgent (tools running on *)
(*     the event loop, feed callbacks running on the WebSocket thread);    *)
(*   - src/mcp_server/app.py : the HTTP gateway (sessions, order          *)
(*     validation, subscriptions).                                         *)
(*                                                                         *)
(* Python values.  Optional[x] is <<>> (None) or <<x>>.  A str holding an  *)
(* instrument "EXCH|TOKEN" is the sequence of its '|'-separated parts, so  *)
(* f"{e}|{tk}" is <<e, tk>> and key.split('|') is the sequence itself.     *)
(* A float is an integer number of tenths.  Objects live in a heap and the *)
(* cache dict maps keys to references, as in Python.                       *)
(***************************************************************************)
EXTENDS Integers, Sequences, FiniteSets, TLC

None == <<>>
Some(v) == <<v>>

\* ------------------------------------------------------------------------
\* Bounds
\* ------------------------------------------------------------------------
\* Coroutines scheduled on the event loop and not yet run.
MaxQueue == 2
\* instruments in one subscribe request to the HTTP gateway
MaxInstruments == 2

\* ------------------------------------------------------------------------
\* Inputs
\* ------------------------------------------------------------------------
Instruments == {<<"NSE", "22">>, <<"NFO", "35003">>}

KeyFields(i) == ("e" :> i[1]) @@ ("tk" :> i[2])

\* Raw feed packets (dicts) the broker's WebSocket thread delivers.
TouchlineTicks ==
    {KeyFields(i) @@ ("t" :> "tf") @@ ("lp" :> "100.0") @@ ("v" :> "500") : i \in Instruments}
    \cup {KeyFields(i) @@ ("t" :> "tf") @@ ("lp" :> "101.5") : i \in Instruments}
DepthTicks == {KeyFields(<<"NSE", "22">>) @@ ("t" :> "df") @@ ("v" :> "600")}
AckTicks == {KeyFields(i) @@ ("t" :> "tk") @@ ("lp" :> "100.0") : i \in Instruments}
UnkindedTicks == {KeyFields(<<"NSE", "22">>) @@ ("lp" :> "101.5")}
AltFormatTicks == {("exseg" :> "NFO") @@ ("token" :> "35003") @@ ("t" :> "tf") @@ ("lp" :> "100.0")}
MalformedTicks == {KeyFields(<<"NSE", "22">>) @@ ("t" :> "tf") @@ ("lp" :> "abc")}
KeylessTicks == {("t" :> "ck")}
RawTicks ==
    TouchlineTicks \cup DepthTicks \cup AckTicks \cup UnkindedTicks
    \cup AltFormatTicks \cup MalformedTicks \cup KeylessTicks

\* dict.get(k)
Get(d, k) == IF k \in DOMAIN d THEN Some(d[k]) ELSE None

\* ------------------------------------------------------------------------
\* ShoonyaTickData
\* ------------------------------------------------------------------------
\* pydantic's coercion of a feed string to float (tenths) and to int; a string
\* outside the table is not a number and raises ValidationError.
FloatOf == ("100.0" :> 1000) @@ ("101.5" :> 1015)
IntOf == ("500" :> 500) @@ ("600" :> 600)

\* The value given for a field: by alias first, then by field name
\* (allow_population_by_field_name).
Given(raw, alias, name) ==
    IF alias \in DOMAIN raw THEN Some(raw[alias]) ELSE Get(raw, name)

Coerce(table, given) == IF given = None THEN None ELSE Some(table[given[1]])
Rejects(table, given) == given # None /\ given[1] \notin DOMAIN table

EmptyTick ==
    [type |-> None, exchange |-> None, token |-> None, last_traded_price |-> None,
     volume |-> None, mcp_received_timestamp |-> None]

\* ShoonyaTickData.parse_obj: every field absent from the dict is None.  The
\* field `type` has no alias, so the packet's 't' never populates it.
parse_obj(raw) ==
    [type |-> Get(raw, "type"),
     exchange |-> Given(raw, "e", "exchange"),
     token |-> Given(raw, "tk", "token"),
     last_traded_price |-> Coerce(FloatOf, Given(raw, "lp", "last_traded_price")),
     volume |-> Coerce(IntOf, Given(raw, "v", "volume")),
     mcp_received_timestamp |-> None]

ParseFails(raw) ==
    \/ Rejects(FloatOf, Given(raw, "lp", "last_traded_price"))
    \/ Rejects(IntOf, Given(raw, "v", "volume"))

Aliases ==
    [type |-> "type", exchange |-> "e", token |-> "tk", last_traded_price |-> "lp",
     volume |-> "v", mcp_received_timestamp |-> "mcp_received_timestamp"]
TickFields == DOMAIN EmptyTick

\* model_dump(by_alias=True, exclude_none=True): a fresh dict of the fields set.
model_dump(tick) ==
    LET set == {f \in TickFields : tick[f] # None}
    IN  [a \in {Aliases[f] : f \in set} |->
            LET f == CHOOSE g \in set : Aliases[g] = a IN tick[f][1]]


\* ------------------------------------------------------------------------
\* State
\* ------------------------------------------------------------------------
VARIABLES
    \* ShoonyaMCPAgent
    shoonya_user_token,          \* Optional[str]
    shoonya_user_id,             \* Optional[str]
    shoonya_username,            \* Optional[str]
    websocket_connected,         \* bool
    subscribed_instruments_mcp,  \* the keys of the Dict[str, bool]
    \* LiveMarketDataResource
    _data,                       \* Dict[str, ShoonyaTickData]: key -> reference
    heap,                        \* reference -> ShoonyaTickData object
    lock_locked,                 \* self._lock is held (across an await)
    notify_pending,              \* the key whose `await notify_update` has not returned
    \* asyncio event loop: coroutines handed over by run_coroutine_threadsafe
    loop_queue,
    \* connect_shoonya_broker: where the coroutine is suspended
    connect_pc,
    \* asyncio.to_thread(start_websocket): not called, running, returned, raised
    ws_call,
    \* start_websocket has been called: the feed's callbacks may fire
    feed_started,
    \* WebSocket thread: position inside _on_market_data_feed
    feed_pc, feed_tick,
    \* what a caller of get_instrument_data / get_all_data holds
    held,
    \* outputs of the step just taken
    emitted,                     \* notify_update calls
    api_calls,                   \* calls on self.shoonya_api
    response,                    \* the tool's return value
    tool_call,                   \* the tool called in this step and its input
    \* HTTP gateway (src/mcp_server/app.py): module-level stores
    active_sessions,             \* token -> session
    client_subscriptions,        \* token -> list of instrument keys
    mock_market_data_store,      \* instrument key -> quote
    \* HTTP gateway: the request handled by the step just taken and its outputs
    request,
    http_response,
    broker_calls                 \* calls of the shoonya_* functions

sessionVars == <<shoonya_user_token, shoonya_user_id, shoonya_username>>
connectVars == <<connect_pc, ws_call, feed_started>>
agentVars == <<sessionVars, websocket_connected, subscribed_instruments_mcp, connectVars>>
resourceVars == <<_data, heap, lock_locked, notify_pending>>
feedVars == <<feed_pc, feed_tick>>
outVars == <<emitted, api_calls, response, tool_call>>
agentSide == <<agentVars, resourceVars, loop_queue, feedVars, held, outVars>>
storeVars == <<active_sessions, client_subscriptions, mock_market_data_store>>
gatewayVars == <<storeVars, request, http_response, broker_calls>>
vars == <<agentSide, gatewayVars>>

ObjIds == 1 .. (2 * Cardinality(Instruments) + 1)

Range(f) == {f[x] : x \in DOMAIN f}
Put(d, k, v) == [x \in DOMAIN d \cup {k} |-> IF x = k THEN v ELSE d[x]]
Del(d, k) == [x \in DOMAIN d \ {k} |-> d[x]]

\* The lowest unused reference: a new object never aliases a live one.
NewRef(h) == CHOOSE i \in ObjIds \ DOMAIN h : \A j \in ObjIds \ DOMAIN h : i <= j

\* Objects no longer referenced by the cache or by a caller are reclaimed.
Collect(h, d, hd) == [i \in DOMAIN h \cap (Range(d) \cup Range(hd.refs)) |-> h[i]]

NoHeld == [kind |-> "none", refs |-> <<>>]
NoResponse == [status |-> "none"]
NoToolCall == [tool |-> "none"]
\* the mcp_tool entered in this step
Invoked(tool, tool_input) == tool_call' = [tool |-> tool, tool_input |-> tool_input]

\* The cache as a reader sees it: key -> field values.
CacheView == [k \in DOMAIN _data |-> heap[_data[k]]]

\* ------------------------------------------------------------------------
\* LiveMarketDataResource: bodies of the coroutines, run with the lock taken
\* ------------------------------------------------------------------------
DataKinds == {"tf", "df"}

\* asyncio.get_event_loop().time()
LoopTime == "loop_time"

NoCacheChange ==
    /\ UNCHANGED <<_data, heap, notify_pending, lock_locked>>
    /\ emitted' = <<>>

\* `await self.notify_update(delta)` inside `async with self._lock`: the call is
\* made in the same step as the mutation and the lock stays held until it returns.
NotifyUnderLock(instrument_key, value) ==
    /\ emitted' = <<[key |-> instrument_key, value |-> value]>>
    /\ notify_pending' = Some(instrument_key)
    /\ lock_locked' = TRUE

\* update_tick as it would be if an entry already stored were kept.
update_tick_keeping_first(instrument_key, tick_data) ==
    IF \/ Get(tick_data, "t") = None
       \/ Get(tick_data, "t")[1] \notin DataKinds
    THEN NoCacheChange
    ELSE IF ParseFails(tick_data) \/ instrument_key \in DOMAIN _data
    THEN NoCacheChange
    ELSE LET parsed_tick == [parse_obj(tick_data) EXCEPT
                                !.mcp_received_timestamp = Some(LoopTime)]
             ref == NewRef(heap)
         IN  /\ _data' = Put(_data, instrument_key, ref)
             /\ heap' = Collect(Put(heap, ref, parsed_tick), _data', held)
             /\ NotifyUnderLock(instrument_key, Some(model_dump(parsed_tick)))

\* update_tick as it would be if a packet that fails validation were stored
\* as an entry without values.
update_tick_storing_unparsed(instrument_key, tick_data) ==
    IF \/ Get(tick_data, "t") = None
       \/ Get(tick_data, "t")[1] \notin DataKinds
    THEN NoCacheChange
    ELSE LET parsed_tick == IF ParseFails(tick_data) THEN EmptyTick
                            ELSE [parse_obj(tick_data) EXCEPT
                                      !.mcp_received_timestamp = Some(LoopTime)]
             ref == NewRef(heap)
         IN  /\ _data' = Put(_data, instrument_key, ref)
             /\ heap' = Collect(Put(heap, ref, parsed_tick), _data', held)
             /\ NotifyUnderLock(instrument_key, Some(model_dump(parsed_tick)))

\* update_tick as it would be if the early return for a packet that is not
\* data left the lock held.
update_tick_returning_with_lock(instrument_key, tick_data) ==
    IF \/ Get(tick_data, "t") = None
       \/ Get(tick_data, "t")[1] \notin DataKinds
    THEN /\ UNCHANGED <<_data, heap, notify_pending>>
         /\ lock_locked' = TRUE
         /\ emitted' = <<>>
    ELSE IF ParseFails(tick_data)
    THEN NoCacheChange
    ELSE LET parsed_tick == [parse_obj(tick_data) EXCEPT
                                !.mcp_received_timestamp = Some(LoopTime)]
             ref == NewRef(heap)
         IN  /\ _data' = Put(_data, instrument_key, ref)
             /\ heap' = Collect(Put(heap, ref, parsed_tick), _data', held)
             /\ NotifyUnderLock(instrument_key, Some(model_dump(parsed_tick)))

\* update_tick as it would be without its test of the packet's kind.
update_tick_storing_every_kind(instrument_key, tick_data) ==
    IF ParseFails(tick_data)
    THEN NoCacheChange
    ELSE LET parsed_tick == [parse_obj(tick_data) EXCEPT
                                !.mcp_received_timestamp = Some(LoopTime)]
             ref == NewRef(heap)
         IN  /\ _data' = Put(_data, instrument_key, ref)
             /\ heap' = Collect(Put(heap, ref, parsed_tick), _data', held)
             /\ NotifyUnderLock(instrument_key, Some(model_dump(parsed_tick)))

update_tick(instrument_key, tick_data) ==
    IF \/ Get(tick_data, "t") = None
       \/ Get(tick_data, "t")[1] \notin DataKinds
    THEN NoCacheChange
    ELSE IF ParseFails(tick_data)
    THEN NoCacheChange    \* ValidationError: caught and logged by the except clause
    ELSE LET parsed_tick == [parse_obj(tick_data) EXCEPT
                                !.mcp_received_timestamp = Some(LoopTime)]
             ref == NewRef(heap)
         IN  /\ _data' = Put(_data, instrument_key, ref)
             /\ heap' = Collect(Put(heap, ref, parsed_tick), _data', held)
             /\ NotifyUnderLock(instrument_key, Some(model_dump(parsed_tick)))

\* initialize_instrument as it would be without its membership test.
initialize_instrument_overwriting(instrument_key) ==
    LET tick == [EmptyTick EXCEPT !.exchange = Some(instrument_key[1]),
                                  !.token = Some(instrument_key[2])]
        ref == NewRef(heap)
    IN  /\ _data' = Put(_data, instrument_key, ref)
        /\ heap' = Collect(Put(heap, ref, tick), _data', held)
        /\ NotifyUnderLock(instrument_key, Some(model_dump(tick)))

initialize_instrument(instrument_key) ==
    IF instrument_key \in DOMAIN _data
    THEN NoCacheChange
    ELSE IF Len(instrument_key) < 2
    THEN NoCacheChange    \* split('|')[1] raises IndexError
    ELSE LET tick == [EmptyTick EXCEPT !.exchange = Some(instrument_key[1]),
                                       !.token = Some(instrument_key[2])]
             ref == NewRef(heap)
         IN  /\ _data' = Put(_data, instrument_key, ref)
             /\ heap' = Put(heap, ref, tick)
             /\ NotifyUnderLock(instrument_key, Some(model_dump(tick)))

\* remove_instrument as it would be if it emptied the dict.
remove_instrument_clearing_cache(instrument_key) ==
    IF instrument_key \in DOMAIN _data
    THEN /\ _data' = <<>>
         /\ heap' = Collect(heap, _data', held)
         /\ NotifyUnderLock(instrument_key, None)
    ELSE NoCacheChange

\* remove_instrument as it would be if it notified outside its membership test.
remove_instrument_always_notifying(instrument_key) ==
    /\ _data' = Del(_data, instrument_key)
    /\ heap' = Collect(heap, _data', held)
    /\ NotifyUnderLock(instrument_key, None)

remove_instrument(instrument_key) ==
    IF instrument_key \in DOMAIN _data
    THEN /\ _data' = Del(_data, instrument_key)
         /\ heap' = Collect(heap, _data', held)
         /\ NotifyUnderLock(instrument_key, None)
    ELSE NoCacheChange

\* ------------------------------------------------------------------------
\* Event loop
\* ------------------------------------------------------------------------
NoTick == <<>>
UpdateTask(k, t) == [op |-> "update_tick", key |-> k, tick |-> t]
InitTask(k) == [op |-> "initialize_instrument", key |-> k, tick |-> NoTick]
RemoveTask(k) == [op |-> "remove_instrument", key |-> k, tick |-> NoTick]

\* A coroutine of the resource from `async with self._lock` (entered once the
\* lock is free, FIFO among waiters) to its first suspension.
RunBody(task) ==
    /\ ~lock_locked
    /\ UNCHANGED gatewayVars
    /\ CASE task.op = "update_tick" -> update_tick(task.key, task.tick)
         [] task.op = "initialize_instrument" -> initialize_instrument(task.key)
         [] task.op = "remove_instrument" -> remove_instrument(task.key)
    /\ api_calls' = <<>>
    /\ response' = NoResponse
    /\ tool_call' = NoToolCall
    /\ UNCHANGED <<agentVars, feedVars, held>>

\* The loop runs the oldest coroutine handed over by run_coroutine_threadsafe.
RunCoroutine ==
    /\ loop_queue # <<>>
    /\ RunBody(Head(loop_queue))
    /\ loop_queue' = Tail(loop_queue)

\* A coroutine of the resource awaited directly by code running on the loop.
AwaitCoroutine(task) ==
    /\ RunBody(task)
    /\ UNCHANGED loop_queue

\* notify_update returns (or raises): `async with` releases the lock.
NotifyReturns ==
    /\ notify_pending # None
    /\ UNCHANGED gatewayVars
    /\ notify_pending' = None
    /\ lock_locked' = FALSE
    /\ emitted' = <<>>
    /\ api_calls' = <<>>
    /\ response' = NoResponse
    /\ tool_call' = NoToolCall
    /\ UNCHANGED <<agentVars, _data, heap, loop_queue, feedVars, held>>

\* ------------------------------------------------------------------------
\* Readers and what they do with the result
\* ------------------------------------------------------------------------
ReaderFrame ==
    /\ UNCHANGED gatewayVars
    /\ emitted' = <<>>
    /\ api_calls' = <<>>
    /\ response' = NoResponse
    /\ tool_call' = NoToolCall
    /\ UNCHANGED <<agentVars, _data, lock_locked, notify_pending, loop_queue, feedVars>>

\* return self._data.get(instrument_key): the stored object itself.
get_instrument_data(instrument_key) ==
    /\ ~lock_locked
    /\ held' = [kind |-> "tick",
                refs |-> IF instrument_key \in DOMAIN _data
                         THEN (instrument_key :> _data[instrument_key]) ELSE <<>>]
    /\ heap' = Collect(heap, _data, held')
    /\ ReaderFrame

\* return self._data.copy(): a new dict holding the same objects.
get_all_data ==
    /\ ~lock_locked
    /\ held' = [kind |-> "dict", refs |-> _data]
    /\ heap' = Collect(heap, _data, held')
    /\ ReaderFrame

\* The caller assigns a field of a ShoonyaTickData it was given.
CallerSetsField(k, price) ==
    /\ k \in DOMAIN held.refs
    /\ heap[held.refs[k]].last_traded_price # Some(price)
    /\ heap' = [heap EXCEPT ![held.refs[k]].last_traded_price = Some(price)]
    /\ UNCHANGED held
    /\ ReaderFrame

\* The caller deletes a key of the dict it was given.
CallerDeletesKey(k) ==
    /\ held.kind = "dict"
    /\ k \in DOMAIN held.refs
    /\ held' = [held EXCEPT !.refs = Del(held.refs, k)]
    /\ heap' = Collect(heap, _data, held')
    /\ ReaderFrame

\* The caller adds a key to the dict it was given.
CallerAddsKey(k) ==
    /\ held.kind = "dict"
    /\ k \notin DOMAIN held.refs
    /\ LET ref == NewRef(heap)
       IN  /\ held' = [held EXCEPT !.refs = Put(held.refs, k, ref)]
           /\ heap' = Put(heap, ref, EmptyTick)
    /\ ReaderFrame

\* The caller lets go of the result.
CallerDrops ==
    /\ held.kind # "none"
    /\ held' = NoHeld
    /\ heap' = Collect(heap, _data, held')
    /\ ReaderFrame

\* A caller on the loop schedules a resource coroutine directly.
ScheduleCoroutine(task) ==
    /\ Len(loop_queue) < MaxQueue
    /\ UNCHANGED gatewayVars
    /\ loop_queue' = Append(loop_queue, task)
    /\ emitted' = <<>>
    /\ api_calls' = <<>>
    /\ response' = NoResponse
    /\ tool_call' = NoToolCall
    /\ UNCHANGED <<agentVars, resourceVars, feedVars, held>>

ResourceTasks ==
    {UpdateTask(<<t["e"], t["tk"]>>, t) :
        t \in TouchlineTicks \cup DepthTicks \cup AckTicks \cup UnkindedTicks \cup MalformedTicks}
    \cup {InitTask(k) : k \in Instruments}
    \cup {RemoveTask(k) : k \in Instruments}

\* What the caller of the readers awaits in between.
ReaderTasks ==
    {UpdateTask(<<t["e"], t["tk"]>>, t) : t \in {u \in TouchlineTicks : "v" \in DOMAIN u}}
    \cup {InitTask(<<"NSE", "22">>), RemoveTask(<<"NSE", "22">>)}

CallerPrices == {2000}

\* ------------------------------------------------------------------------
\* Broker client (ShoonyaApiPy): what a call can come back with
\* ------------------------------------------------------------------------
BrokerReturns(d) == [raised |-> FALSE, value |-> Some(d)]
BrokerReturnsNone == [raised |-> FALSE, value |-> None]
BrokerRaises == [raised |-> TRUE, value |-> None]

Call(fn, args) == [fn |-> fn, args |-> args]

\* `response and response.get('stat') == 'Ok'`
StatOk(outcome) == outcome.value # None /\ Get(outcome.value[1], "stat") = Some("Ok")

\* ------------------------------------------------------------------------
\* ShoonyaMCPAgent: connect_shoonya_broker
\* ------------------------------------------------------------------------
Credentials ==
    {[user_id |-> u, password |-> "password123", two_fa_token |-> "123456",
      vendor_code |-> "vc", api_secret |-> "secret", imei |-> "imei"] : u \in {"FA1", "FA2"}}

LoginOutcomes(c) ==
    {BrokerReturns(("stat" :> "Ok") @@ ("susertoken" :> "token_" \o c.user_id)
                   @@ ("uid" :> c.user_id) @@ ("uname" :> "Mock User")),
     BrokerReturns(("stat" :> "Not_Ok") @@ ("emsg" :> "Invalid credentials")),
     BrokerReturnsNone,
     BrokerRaises}

LoginArgs(c) ==
    [userid |-> c.user_id, password |-> c.password, twoFA |-> c.two_fa_token,
     vc |-> c.vendor_code, api_secret |-> c.api_secret, imei |-> c.imei]

FeedCallbacks ==
    [order_update_callback |-> "_on_order_update_feed",
     subscribe_callback |-> "_on_market_data_feed",
     socket_open_callback |-> "_on_websocket_open",
     socket_close_callback |-> "_on_websocket_close"]

_is_connected_ignoring_token == TRUE
_is_connected == shoonya_user_token # None

ResetLogin_keeping_user_id ==
    /\ shoonya_user_token' = None
    /\ UNCHANGED shoonya_user_id
    /\ shoonya_username' = None

ResetLogin ==
    /\ shoonya_user_token' = None
    /\ shoonya_user_id' = None
    /\ shoonya_username' = None

ToolFrame ==
    /\ UNCHANGED gatewayVars
    /\ emitted' = <<>>
    /\ UNCHANGED <<resourceVars, feedVars, held>>

\* connect_shoonya_broker as it would be without the early return of an agent
\* that is already connected.
connect_shoonya_broker_always_logging_in(tool_input, login_response) ==
    /\ connect_pc = "idle"
    /\ ToolFrame
    /\ Invoked("connect_shoonya_broker", tool_input)
    /\ UNCHANGED <<subscribed_instruments_mcp, loop_queue>>
    /\ IF StatOk(login_response)
       THEN /\ shoonya_user_token' = Get(login_response.value[1], "susertoken")
            /\ shoonya_user_id' = Get(login_response.value[1], "uid")
            /\ shoonya_username' = Get(login_response.value[1], "uname")
            /\ api_calls' = <<Call("login", LoginArgs(tool_input)),
                              Call("start_websocket", FeedCallbacks)>>
            /\ connect_pc' = "to_thread"
            /\ ws_call' = "running"
            /\ feed_started' = TRUE
            /\ response' = NoResponse
            /\ UNCHANGED websocket_connected
       ELSE /\ api_calls' = <<Call("login", LoginArgs(tool_input))>>
            /\ ResetLogin
            /\ websocket_connected' = FALSE
            /\ response' = [status |-> "error", message |-> "login failed"]
            /\ UNCHANGED connectVars

\* From the call of the tool to its first suspension, `await asyncio.to_thread`.
connect_shoonya_broker(tool_input, login_response) ==
    /\ connect_pc = "idle"
    /\ ToolFrame
    /\ Invoked("connect_shoonya_broker", tool_input)
    /\ UNCHANGED <<subscribed_instruments_mcp, loop_queue>>
    /\ IF _is_connected /\ websocket_connected
       THEN /\ response' = [status |-> "success", message |-> "Already connected",
                            user_id |-> shoonya_user_id, username |-> shoonya_username]
            /\ api_calls' = <<>>
            /\ UNCHANGED <<sessionVars, websocket_connected, connectVars>>
       ELSE IF login_response.raised
       THEN /\ api_calls' = <<Call("login", LoginArgs(tool_input))>>
            /\ ResetLogin
            /\ websocket_connected' = FALSE
            /\ response' = [status |-> "error", message |-> "exception during login"]
            /\ UNCHANGED connectVars
       ELSE IF StatOk(login_response)
       THEN /\ shoonya_user_token' = Get(login_response.value[1], "susertoken")
            /\ shoonya_user_id' = Get(login_response.value[1], "uid")
            /\ shoonya_username' = Get(login_response.value[1], "uname")
            /\ api_calls' = <<Call("login", LoginArgs(tool_input)),
                              Call("start_websocket", FeedCallbacks)>>
            /\ connect_pc' = "to_thread"
            /\ ws_call' = "running"
            /\ feed_started' = TRUE
            /\ response' = NoResponse
            /\ UNCHANGED websocket_connected
       ELSE IF login_response.value = None
       THEN \* login_response.get('emsg') on None: AttributeError leaves the tool
            /\ api_calls' = <<Call("login", LoginArgs(tool_input))>>
            /\ response' = [status |-> "raised", message |-> "AttributeError"]
            /\ UNCHANGED <<sessionVars, websocket_connected, connectVars>>
       ELSE /\ api_calls' = <<Call("login", LoginArgs(tool_input))>>
            /\ ResetLogin
            /\ websocket_connected' = FALSE
            /\ response' = [status |-> "error", message |-> "login failed"]
            /\ UNCHANGED connectVars

ThreadFrame ==
    /\ UNCHANGED gatewayVars
    /\ emitted' = <<>>
    /\ api_calls' = <<>>
    /\ response' = NoResponse
    /\ tool_call' = NoToolCall
    /\ UNCHANGED <<sessionVars, subscribed_instruments_mcp, resourceVars, held>>

\* The worker thread's start_websocket call ends, by returning or by raising.
start_websocket_ends(raised) ==
    /\ ws_call = "running"
    /\ ws_call' = IF raised THEN "raised" ELSE "returned"
    /\ ThreadFrame
    /\ UNCHANGED <<websocket_connected, connect_pc, feed_started, loop_queue, feedVars>>

\* `await asyncio.to_thread(...)` resumes: on to `await asyncio.sleep(2)`, or into
\* the except clause.
connect_after_to_thread ==
    /\ connect_pc = "to_thread"
    /\ ws_call \in {"returned", "raised"}
    /\ ToolFrame
    /\ tool_call' = NoToolCall
    /\ api_calls' = <<>>
    /\ ws_call' = "none"
    /\ UNCHANGED <<subscribed_instruments_mcp, loop_queue, feed_started>>
    /\ IF ws_call = "raised"
       THEN /\ ResetLogin
            /\ websocket_connected' = FALSE
            /\ connect_pc' = "idle"
            /\ response' = [status |-> "error", message |-> "WebSocket startup failed"]
       ELSE /\ connect_pc' = "sleep"
            /\ response' = NoResponse
            /\ UNCHANGED <<sessionVars, websocket_connected>>

\* connect_after_sleep as it would be if the success branch dropped the login.
connect_after_sleep_forgetting_login ==
    /\ connect_pc = "sleep"
    /\ ToolFrame
    /\ tool_call' = NoToolCall
    /\ api_calls' = <<>>
    /\ connect_pc' = "idle"
    /\ UNCHANGED <<subscribed_instruments_mcp, loop_queue, websocket_connected,
                   ws_call, feed_started>>
    /\ ResetLogin
    /\ response' = IF websocket_connected
                   THEN [status |-> "success", message |-> "connected",
                         user_id |-> None, username |-> None]
                   ELSE [status |-> "error", message |-> "WebSocket failed to open"]

\* `await asyncio.sleep(2)` resumes.
connect_after_sleep ==
    /\ connect_pc = "sleep"
    /\ ToolFrame
    /\ tool_call' = NoToolCall
    /\ api_calls' = <<>>
    /\ connect_pc' = "idle"
    /\ UNCHANGED <<subscribed_instruments_mcp, loop_queue, websocket_connected,
                   ws_call, feed_started>>
    /\ IF websocket_connected
       THEN /\ response' = [status |-> "success", message |-> "connected",
                            user_id |-> shoonya_user_id, username |-> shoonya_username]
            /\ UNCHANGED sessionVars
       ELSE /\ ResetLogin
            /\ response' = [status |-> "error", message |-> "WebSocket failed to open"]

\* ------------------------------------------------------------------------
\* WebSocket thread callbacks
\* ------------------------------------------------------------------------
_on_websocket_open ==
    /\ feed_started
    /\ websocket_connected' = TRUE
    /\ ThreadFrame
    /\ UNCHANGED <<connectVars, loop_queue, feedVars>>

_on_websocket_close ==
    /\ feed_started
    /\ websocket_connected' = FALSE
    /\ ThreadFrame
    /\ UNCHANGED <<connectVars, loop_queue, feedVars>>

\* start_websocket as a blocking feed loop ("ShoonyaApi-py's start_websocket is
\* indeed blocking"): the callbacks fire from inside the call, and the call
\* ends only once the streaming connection is no longer open.
feed_loop_opens ==
    /\ ws_call = "running"
    /\ _on_websocket_open

feed_loop_closes ==
    /\ ws_call = "running"
    /\ websocket_connected
    /\ _on_websocket_close

feed_loop_ends(raised) ==
    /\ ~websocket_connected
    /\ start_websocket_ends(raised)

InstrumentKeyOf(tick_data) ==
    IF "tk" \in DOMAIN tick_data /\ "e" \in DOMAIN tick_data
    THEN Some(<<tick_data["e"], tick_data["tk"]>>)
    ELSE IF "token" \in DOMAIN tick_data /\ "exseg" \in DOMAIN tick_data
    THEN Some(<<tick_data["exseg"], tick_data["token"]>>)
    ELSE None

\* Slots of the bounded queue spoken for.
Scheduled == Len(loop_queue) + (IF feed_pc = "schedule" THEN 1 ELSE 0)

\* _on_market_data_feed up to the membership test of line 253.
feed_check(tick_data) ==
    /\ feed_started
    /\ feed_pc = "idle"
    /\ Scheduled < MaxQueue
    /\ LET instrument_key == InstrumentKeyOf(tick_data)
       IN  IF instrument_key # None /\ instrument_key[1] \in subscribed_instruments_mcp
           THEN /\ feed_pc' = "schedule"
                /\ feed_tick' = tick_data
           ELSE UNCHANGED feedVars    \* logged and dropped
    /\ ThreadFrame
    /\ UNCHANGED <<websocket_connected, connectVars, loop_queue>>

\* The hand-over as it would be if the feed thread took the cache lock itself.
feed_schedule_taking_lock ==
    /\ feed_pc = "schedule"
    /\ ~lock_locked
    /\ loop_queue' = Append(loop_queue, UpdateTask(InstrumentKeyOf(feed_tick)[1], feed_tick))
    /\ feed_pc' = "idle"
    /\ feed_tick' = NoTick
    /\ ThreadFrame
    /\ UNCHANGED <<websocket_connected, connectVars>>

\* _on_market_data_feed, lines 255-258: run_coroutine_threadsafe hands the
\* coroutine to the loop and returns a future nobody waits for.
feed_schedule ==
    /\ feed_pc = "schedule"
    /\ loop_queue' = Append(loop_queue, UpdateTask(InstrumentKeyOf(feed_tick)[1], feed_tick))
    /\ feed_pc' = "idle"
    /\ feed_tick' = NoTick
    /\ ThreadFrame
    /\ UNCHANGED <<websocket_connected, connectVars>>

\* ------------------------------------------------------------------------
\* ShoonyaMCPAgent: market feed tools.  A tool body without an await runs in
\* one step of the loop.
\* ------------------------------------------------------------------------
SeqMap(Op(_), seq) == [i \in 1 .. Len(seq) |-> Op(seq[i])]
Elems(seq) == {seq[i] : i \in 1 .. Len(seq)}

NotConnected == [status |-> "error", message |-> "Not connected to Shoonya"]

\* subscribe_market_feeds as it would be if the keys were recorded before the
\* broker's subscribe is called.
subscribe_market_feeds_tracking_first(instruments, subscribe_raises) ==
    /\ Scheduled + Len(instruments) <= MaxQueue
    /\ ToolFrame
    /\ Invoked("subscribe_market_feeds", [instruments |-> instruments])
    /\ UNCHANGED <<sessionVars, websocket_connected, connectVars>>
    /\ IF ~_is_connected
       THEN /\ response' = NotConnected
            /\ api_calls' = <<>>
            /\ UNCHANGED <<subscribed_instruments_mcp, loop_queue>>
       ELSE IF ~websocket_connected
       THEN /\ response' = [status |-> "error", message |-> "WebSocket is not connected"]
            /\ api_calls' = <<>>
            /\ UNCHANGED <<subscribed_instruments_mcp, loop_queue>>
       ELSE /\ api_calls' = <<Call("subscribe", [instrument_list |-> instruments])>>
            /\ subscribed_instruments_mcp' = subscribed_instruments_mcp \cup Elems(instruments)
            /\ loop_queue' = loop_queue \o SeqMap(InitTask, instruments)
            /\ response' = IF subscribe_raises
                           THEN [status |-> "error", message |-> "exception during subscribe"]
                           ELSE [status |-> "success", requested_instruments |-> instruments]

\* subscribe_market_feeds as it would be without its test of websocket_connected.
subscribe_market_feeds_without_feed_check(instruments, subscribe_raises) ==
    /\ Scheduled + Len(instruments) <= MaxQueue
    /\ ToolFrame
    /\ Invoked("subscribe_market_feeds", [instruments |-> instruments])
    /\ UNCHANGED <<sessionVars, websocket_connected, connectVars>>
    /\ IF ~_is_connected
       THEN /\ response' = NotConnected
            /\ api_calls' = <<>>
            /\ UNCHANGED <<subscribed_instruments_mcp, loop_queue>>
       ELSE IF FALSE
       THEN /\ response' = [status |-> "error", message |-> "WebSocket is not connected"]
            /\ api_calls' = <<>>
            /\ UNCHANGED <<subscribed_instruments_mcp, loop_queue>>
       ELSE IF subscribe_raises
       THEN /\ response' = [status |-> "error", message |-> "exception during subscribe"]
            /\ api_calls' = <<Call("subscribe", [instrument_list |-> instruments])>>
            /\ UNCHANGED <<subscribed_instruments_mcp, loop_queue>>
       ELSE /\ api_calls' = <<Call("subscribe", [instrument_list |-> instruments])>>
            /\ subscribed_instruments_mcp' = subscribed_instruments_mcp \cup Elems(instruments)
            /\ loop_queue' = loop_queue \o SeqMap(InitTask, instruments)
            /\ response' = [status |-> "success", requested_instruments |-> instruments]

subscribe_market_feeds(instruments, subscribe_raises) ==
    /\ Scheduled + Len(instruments) <= MaxQueue
    /\ ToolFrame
    /\ Invoked("subscribe_market_feeds", [instruments |-> instruments])
    /\ UNCHANGED <<sessionVars, websocket_connected, connectVars>>
    /\ IF ~_is_connected
       THEN /\ response' = NotConnected
            /\ api_calls' = <<>>
            /\ UNCHANGED <<subscribed_instruments_mcp, loop_queue>>
       ELSE IF ~websocket_connected
       THEN /\ response' = [status |-> "error", message |-> "WebSocket is not connected"]
            /\ api_calls' = <<>>
            /\ UNCHANGED <<subscribed_instruments_mcp, loop_queue>>
       ELSE IF subscribe_raises
       THEN /\ response' = [status |-> "error", message |-> "exception during subscribe"]
            /\ api_calls' = <<Call("subscribe", [instrument_list |-> instruments])>>
            /\ UNCHANGED <<subscribed_instruments_mcp, loop_queue>>
       ELSE /\ api_calls' = <<Call("subscribe", [instrument_list |-> instruments])>>
            /\ subscribed_instruments_mcp' = subscribed_instruments_mcp \cup Elems(instruments)
            /\ loop_queue' = loop_queue \o SeqMap(InitTask, instruments)
            /\ response' = [status |-> "success", requested_instruments |-> instruments]

unsubscribe_market_feeds(instruments, unsubscribe_raises) ==
    /\ Scheduled + Len(instruments) <= MaxQueue
    /\ ToolFrame
    /\ Invoked("unsubscribe_market_feeds", [instruments |-> instruments])
    /\ UNCHANGED <<sessionVars, websocket_connected, connectVars>>
    /\ IF ~_is_connected
       THEN /\ response' = NotConnected
            /\ api_calls' = <<>>
            /\ UNCHANGED <<subscribed_instruments_mcp, loop_queue>>
       ELSE IF unsubscribe_raises
       THEN /\ response' = [status |-> "error", message |-> "exception during unsubscribe"]
            /\ api_calls' = <<Call("unsubscribe", [instrument_list |-> instruments])>>
            /\ UNCHANGED <<subscribed_instruments_mcp, loop_queue>>
       ELSE /\ api_calls' = <<Call("unsubscribe", [instrument_list |-> instruments])>>
            /\ subscribed_instruments_mcp' = subscribed_instruments_mcp \ Elems(instruments)
            /\ loop_queue' = loop_queue \o SeqMap(RemoveTask, instruments)
            /\ response' = [status |-> "success", unsubscribed_instruments |-> instruments]

InstrumentLists ==
    {<<k>> : k \in Instruments} \cup {<<<<"NSE", "22">>, <<"NFO", "35003">>>>}

\* Instrument strings a client may pass that are not EXCH|TOKEN (no separator,
\* an empty exchange), and one that is.
RequestedKeys == {<<"NSE">>, <<"", "22">>, <<"NFO", "35003">>}
RequestedKeyLists == {<<k>> : k \in RequestedKeys}
\* Packets for two of them: one with an empty exchange, one in the
\* alternative format.
RequestedKeyTicks ==
    {KeyFields(<<"", "22">>) @@ ("t" :> "tf") @@ ("lp" :> "101.5")} \cup AltFormatTicks

\* The client of the feed specification logs in as one user.
FeedCredentials == {c \in Credentials : c.user_id = "FA1"}

\* Packets the feed delivers in the agent's specification.
FeedTicks == {t \in TouchlineTicks : t["e"] = "NSE"} \cup KeylessTicks

\* ------------------------------------------------------------------------
\* ShoonyaMCPAgent: place_order
\* ------------------------------------------------------------------------
\* PlaceOrderInput as pydantic hands it over: quantity is an int of any sign,
\* price a float (tenths), trigger_price and remarks Optional.
PlaceOrderInputs ==
    [buy_or_sell : {"B"}, product_type : {"I"}, exchange : {"NSE"},
     tradingsymbol : {"INFY-EQ"}, quantity : {-5, 0, 10, 4001, 100001},
     discloseqty : {0}, price_type : {"LMT", "MKT"}, price : {0, 12500},
     trigger_price : {None}, retention : {"DAY"}, amo : {"NO"}, remarks : {None, Some("r")}]

\* tool_input.model_dump(by_alias=True, exclude_none=True), plus actid.
OrderArgs(tool_input, actid) ==
    [trantype |-> tool_input.buy_or_sell, prd |-> tool_input.product_type,
     exch |-> tool_input.exchange, tsym |-> tool_input.tradingsymbol,
     qty |-> tool_input.quantity, dscqty |-> tool_input.discloseqty,
     prctyp |-> tool_input.price_type, prc |-> tool_input.price,
     ret |-> tool_input.retention, amo |-> tool_input.amo, actid |-> actid]
    @@ (IF tool_input.trigger_price # None
        THEN ("trgprc" :> tool_input.trigger_price[1]) ELSE <<>>)
    @@ (IF tool_input.remarks # None
        THEN ("remarks" :> tool_input.remarks[1]) ELSE <<>>)

PlaceOrderOutcomes ==
    {BrokerReturns(("stat" :> "Ok") @@ ("norenordno" :> "123456789")
                   @@ ("result" :> "Order placed successfully")),
     BrokerReturns(("stat" :> "Ok") @@ ("norenordno" :> "123456789")),
     BrokerReturns(("stat" :> "Ok")),
     BrokerReturns(("stat" :> "Not_Ok") @@ ("emsg" :> "Insufficient funds for order.")),
     BrokerReturns(("stat" :> "Not_Ok")),
     BrokerReturnsNone,
     BrokerRaises}

GetOr(d, k, default) == IF k \in DOMAIN d THEN d[k] ELSE default

place_order_retrying_on_error(tool_input, outcome) ==
    /\ ToolFrame
    /\ Invoked("place_order", tool_input)
    /\ UNCHANGED <<agentVars, loop_queue>>
    /\ IF ~_is_connected
       THEN /\ response' = NotConnected
            /\ api_calls' = <<>>
       ELSE IF StatOk(outcome) /\ "norenordno" \in DOMAIN outcome.value[1]
       THEN /\ api_calls' = <<Call("place_order", OrderArgs(tool_input, shoonya_user_id))>>
            /\ response' = [status |-> "success",
                            message |-> GetOr(outcome.value[1], "result",
                                              "Order placed successfully."),
                            order_id |-> Some(outcome.value[1]["norenordno"])]
       ELSE /\ api_calls' = <<Call("place_order", OrderArgs(tool_input, shoonya_user_id)),
                              Call("place_order", OrderArgs(tool_input, shoonya_user_id))>>
            /\ response' = [status |-> "error", message |-> "An exception occurred",
                            order_id |-> None]

place_order(tool_input, outcome) ==
    /\ ToolFrame
    /\ Invoked("place_order", tool_input)
    /\ UNCHANGED <<agentVars, loop_queue>>
    /\ IF ~_is_connected
       THEN /\ response' = NotConnected
            /\ api_calls' = <<>>
       ELSE /\ api_calls' = <<Call("place_order", OrderArgs(tool_input, shoonya_user_id))>>
            /\ response' =
                 IF outcome.raised
                 THEN [status |-> "error", message |-> "An exception occurred",
                       order_id |-> None]
                 ELSE IF StatOk(outcome) /\ "norenordno" \in DOMAIN outcome.value[1]
                 THEN [status |-> "success",
                       message |-> GetOr(outcome.value[1], "result",
                                         "Order placed successfully."),
                       order_id |-> Some(outcome.value[1]["norenordno"])]
                 ELSE IF outcome.value = None
                 THEN \* response.get on None: AttributeError, caught by the except clause
                      [status |-> "error", message |-> "An exception occurred",
                       order_id |-> None]
                 ELSE [status |-> "error",
                       message |-> GetOr(outcome.value[1], "emsg",
                                         "Failed to place order with Shoonya."),
                       order_id |-> None]

\* ------------------------------------------------------------------------
\* ShoonyaMCPAgent: health_check and the query tools
\* ------------------------------------------------------------------------
health_check ==
    /\ ToolFrame
    /\ Invoked("health_check", None)
    /\ UNCHANGED <<agentVars, loop_queue>>
    /\ api_calls' = <<>>
    /\ response' =
           [status |-> "success", message |-> "Agent is running.",
            shoonya_connection_status |->
                IF _is_connected THEN "connected" ELSE "disconnected",
            shoonya_user_id |-> shoonya_user_id,
            shoonya_username |-> shoonya_username,
            websocket_status |->
                IF websocket_connected THEN "connected" ELSE "disconnected"]

\* A broker method that returned a list: isinstance(response, list) holds.
BrokerReturnsList(l) == [raised |-> FALSE, value |-> Some(l), list |-> TRUE]
IsList(outcome) == "list" \in DOMAIN outcome
\* d.get(k) as a truth value
HasValue(d, k) == k \in DOMAIN d /\ d[k] # ""
\* {"status": "error", "message": f"An exception occurred: {e}", field: None}
ExceptionOccurred(field) ==
    ("status" :> "error") @@ ("message" :> "An exception occurred") @@ (field :> None)
QueryError(message, field) ==
    ("status" :> "error") @@ ("message" :> message) @@ (field :> None)
QuerySuccess(field, value) == ("status" :> "success") @@ (field :> Some(value))

\* The if/elif chain of get_order_book, get_positions and get_holdings: the
\* broker's list, filtered on `key`, is returned under `field`.
ListQueryResult(outcome, key, field, default_message, method) ==
    IF outcome.raised
    THEN ExceptionOccurred(field)
    ELSE IF /\ IsList(outcome)
            /\ Len(outcome.value[1]) > 0
            /\ Get(outcome.value[1][1], "stat") = Some("Ok")
    THEN QuerySuccess(field, SelectSeq(outcome.value[1], LAMBDA item : HasValue(item, key)))
    ELSE IF /\ IsList(outcome)
            /\ Len(outcome.value[1]) > 0
            /\ Get(outcome.value[1][1], "stat") = Some("Not_Ok")
    THEN QueryError(GetOr(outcome.value[1][1], "emsg", default_message), field)
    ELSE IF IsList(outcome) /\ outcome.value[1] = <<>>
    THEN QuerySuccess(field, <<>>)
    ELSE QueryError("Unexpected response format from Shoonya " \o method \o ".", field)

\* {k: v for k, v in response.items() if k not in ['stat', 'emsg']}
WithoutStatus(d) == [k \in DOMAIN d \ {"stat", "emsg"} |-> d[k]]
\* The if/else of get_limits and get_quotes; response.get on None raises
\* AttributeError, which the except clause catches.
DictQueryResult(outcome, field, default_message) ==
    IF outcome.raised
    THEN ExceptionOccurred(field)
    ELSE IF StatOk(outcome)
    THEN QuerySuccess(field, WithoutStatus(outcome.value[1]))
    ELSE IF outcome.value = None
    THEN ExceptionOccurred(field)
    ELSE QueryError(GetOr(outcome.value[1], "emsg", default_message), field)

\* The if/elif/else of search_scrip and get_option_chain.
ValuesQueryResult(outcome, field, default_message, empty_message) ==
    IF outcome.raised
    THEN ExceptionOccurred(field)
    ELSE IF StatOk(outcome) /\ "values" \in DOMAIN outcome.value[1]
    THEN QuerySuccess(field, outcome.value[1]["values"])
    ELSE IF outcome.value # None /\ Get(outcome.value[1], "stat") = Some("Not_Ok")
    THEN QueryError(GetOr(outcome.value[1], "emsg", default_message), field)
    ELSE IF outcome.value = None
    THEN ExceptionOccurred(field)
    ELSE QuerySuccess(field, <<>>)
         @@ ("message" :> GetOr(outcome.value[1], "emsg", empty_message))

\* The if/elif chain of get_time_price_series: candles carry no 'stat'.
CandlesResult(outcome) ==
    IF outcome.raised
    THEN ExceptionOccurred("candles")
    ELSE IF /\ IsList(outcome)
            /\ outcome.value[1] # <<>>
            /\ "stat" \notin DOMAIN outcome.value[1][1]
    THEN QuerySuccess("candles", outcome.value[1])
    ELSE IF /\ IsList(outcome)
            /\ outcome.value[1] # <<>>
            /\ outcome.value[1][1]["stat"] = "Not_Ok"
    THEN QueryError(GetOr(outcome.value[1][1], "emsg",
                          "Failed to retrieve time price series."), "candles")
    ELSE IF IsList(outcome) /\ outcome.value[1] = <<>>
    THEN QuerySuccess("candles", <<>>)
    ELSE QueryError("Unexpected response format from Shoonya get_time_price_series.",
                    "candles")

\* What every query tool leaves alone: no query tool writes a field of the agent.
QueryFrame(tool, tool_input) ==
    /\ ToolFrame
    /\ Invoked(tool, tool_input)
    /\ UNCHANGED <<agentVars, loop_queue>>
\* The connection guard, then one call on the broker client and the dict made
\* of its answer.
GuardedCall(call, result) ==
    IF ~_is_connected
    THEN /\ response' = NotConnected
         /\ api_calls' = <<>>
    ELSE /\ api_calls' = <<call>>
         /\ response' = result

get_order_book(outcome) ==
    /\ QueryFrame("get_order_book", None)
    /\ GuardedCall(Call("get_order_book", <<>>),
                   ListQueryResult(outcome, "norenordno", "order_book",
                                   "Failed to retrieve order book from Shoonya.",
                                   "get_order_book"))

get_positions(outcome) ==
    /\ QueryFrame("get_positions", None)
    /\ GuardedCall(Call("get_positions", <<>>),
                   ListQueryResult(outcome, "tsym", "positions",
                                   "Failed to retrieve positions from Shoonya.",
                                   "get_positions"))

\* `if tool_input and tool_input.product_type`: prd is passed when it is a
\* non-empty string
HoldingsArgs(tool_input, actid) ==
    (IF /\ tool_input # None
        /\ tool_input[1].product_type # None
        /\ tool_input[1].product_type[1] # ""
     THEN ("prd" :> tool_input[1].product_type[1]) ELSE <<>>)
    @@ ("actid" :> actid)

get_holdings(tool_input, outcome) ==
    /\ QueryFrame("get_holdings", tool_input)
    /\ GuardedCall(Call("get_holdings", HoldingsArgs(tool_input, shoonya_user_id)),
                   ListQueryResult(outcome, "tsym", "holdings",
                                   "Failed to retrieve holdings from Shoonya.",
                                   "get_holdings"))

get_limits(outcome) ==
    /\ QueryFrame("get_limits", None)
    /\ GuardedCall(Call("get_limits", [actid |-> shoonya_user_id]),
                   DictQueryResult(outcome, "limits", "Failed to retrieve limits from Shoonya."))

search_scrip(tool_input, outcome) ==
    /\ QueryFrame("search_scrip", tool_input)
    /\ GuardedCall(Call("searchscrip", [exch |-> tool_input.exchange,
                                        stext |-> tool_input.search_text]),
                   ValuesQueryResult(outcome, "scrips", "Failed to search scrips.",
                                     "No scrips found or unexpected format."))

get_quotes(tool_input, outcome) ==
    /\ QueryFrame("get_quotes", tool_input)
    /\ GuardedCall(Call("get_quotes", [exch |-> tool_input.exchange, token |-> tool_input.token]),
                   DictQueryResult(outcome, "quote", "Failed to retrieve quote."))

\* str(x) of a non-negative float held as a number of tenths
FloatStr(tenths) == ToString(tenths \div 10) \o "." \o ToString(tenths % 10)

get_option_chain(tool_input, outcome) ==
    /\ QueryFrame("get_option_chain", tool_input)
    /\ GuardedCall(Call("get_option_chain",
                        [exch |-> tool_input.exchange,
                         searchagesymbol |-> tool_input.tradingsymbol,
                         strprc |-> FloatStr(tool_input.strikeprice)]),
                   ValuesQueryResult(outcome, "option_chain", "Failed to retrieve option chain.",
                                     "No option data found or unexpected format."))

\* `str(tool_input.endtime) if tool_input.endtime else None`: an endtime of 0
\* is passed as None
TimePriceSeriesArgs(tool_input) ==
    [exch |-> tool_input.exchange, token |-> tool_input.token,
     stime |-> ToString(tool_input.starttime),
     etime |-> IF tool_input.endtime # None /\ tool_input.endtime[1] # 0
               THEN Some(ToString(tool_input.endtime[1])) ELSE None,
     intrv |-> ToString(tool_input.interval)]

get_time_price_series(tool_input, outcome) ==
    /\ QueryFrame("get_time_price_series", tool_input)
    /\ GuardedCall(Call("get_time_price_series", TimePriceSeriesArgs(tool_input)),
                   CandlesResult(outcome))

\* What the broker client can answer to a query that returns a list whose
\* items are recognised by `key`.
ListOutcomes(key) ==
    {BrokerReturnsList(<<("stat" :> "Ok") @@ (key :> "1"), ("stat" :> "Ok")>>),
     BrokerReturnsList(<<("stat" :> "Not_Ok") @@ ("emsg" :> "Session Expired")>>),
     BrokerReturnsList(<<("stat" :> "Not_Ok")>>),
     BrokerReturnsList(<<("k" :> "v")>>),
     BrokerReturnsList(<<>>),
     BrokerReturns(("stat" :> "Ok")),
     BrokerReturnsNone,
     BrokerRaises}
DictOutcomes ==
    {BrokerReturns(("stat" :> "Ok") @@ ("cash" :> "100000.00")),
     BrokerReturns(("stat" :> "Not_Ok") @@ ("emsg" :> "Session Expired")),
     BrokerReturns(("stat" :> "Not_Ok")),
     BrokerReturnsNone,
     BrokerRaises}
ValuesOutcomes ==
    {BrokerReturns([stat |-> "Ok", values |-> <<[tsym |-> "INFY-EQ", token |-> "1594"]>>]),
     BrokerReturns(("stat" :> "Ok")),
     BrokerReturns(("stat" :> "Not_Ok") @@ ("emsg" :> "No data")),
     BrokerReturns(("emsg" :> "No data")),
     BrokerReturnsNone,
     BrokerRaises}
CandleOutcomes ==
    {BrokerReturnsList(<<[time |-> "01-01-2024 09:15:00", intc |-> "101.5"]>>),
     BrokerReturnsList(<<("stat" :> "Not_Ok") @@ ("emsg" :> "No data")>>),
     BrokerReturnsList(<<("stat" :> "Ok")>>),
     BrokerReturnsList(<<>>),
     BrokerReturnsNone,
     BrokerRaises}

GetHoldingsInputs ==
    {None, Some([product_type |-> None]), Some([product_type |-> Some("")]),
     Some([product_type |-> Some("C")])}
SearchScripInputs == {[exchange |-> "NSE", search_text |-> "INFY"]}
GetQuotesInputs == {[exchange |-> "NSE", token |-> "22"]}
GetOptionChainInputs ==
    {[exchange |-> "NFO", tradingsymbol |-> "NIFTY", strikeprice |-> 245005, count |-> 5]}
GetTimePriceSeriesInputs ==
    [exchange : {"NSE"}, token : {"22"}, starttime : {1700000000},
     endtime : {None, Some(0), Some(1700003600)}, interval : {1}]
\* One instrument list and one order of each price type for the specification
\* of all the tools.
ToolInstrumentLists == {<<<<"NSE", "22">>>>}
FewPlaceOrderInputs ==
    {i \in PlaceOrderInputs : i.quantity = 10 /\ i.price = 12500 /\ i.remarks = None}

\* ------------------------------------------------------------------------
\* HTTP gateway (src/mcp_server/app.py): values of a JSON body
\* ------------------------------------------------------------------------
\* A JSON value carries its Python type; a float is a number of tenths.
PyNone == <<"NoneType">>
PyStr(s) == <<"str", s>>
PyInt(n) == <<"int", n>>
PyBool(b) == <<"bool", b>>
PyFloat(tenths) == <<"float", tenths>>
PyList(items) == <<"list", items>>
PyDict(d) == <<"dict", d>>

\* isinstance(v, int): bool is a subclass of int
IsInt(v) == v[1] \in {"int", "bool"}
IntVal(v) == IF v[1] = "bool" THEN (IF v[2] THEN 1 ELSE 0) ELSE v[2]
\* isinstance(v, (int, float))
IsNumber(v) == v[1] \in {"int", "bool", "float"}
Tenths(v) == IF v[1] = "float" THEN v[2] ELSE 10 * IntVal(v)
\* d.get(k): the value, or None when the key is absent
DictGet(d, k) == IF k \in DOMAIN d THEN d[k] ELSE PyNone
\* "not data" for the result of request.get_json(): None or an empty dict
NotData(body) == body = None \/ DOMAIN body[1] = {}

MAX_ORDER_QUANTITY == 100000
MAX_ORDER_VALUE == 5000000
ORDER_STATUSES ==
    {"PENDING_SEND", "SENT_TO_BROKER", "OPEN", "PARTIALLY_FILLED", "FILLED",
     "CANCELLED", "REJECTED_MCP", "REJECTED_BROKER", "ERROR"}
ALLOWED_EXCHANGES == {"NSE", "NFO", "CDS", "BSE", "MCX"}
ALLOWED_ORDER_TYPES == {"MARKET", "LIMIT", "SL", "SL-M"}
ALLOWED_TRANSACTION_TYPES == {"BUY", "SELL"}
ALLOWED_PRODUCT_TYPES == {"CNC", "INTRADAY", "NORMAL", "MTF"}

NoRequest == [route |-> "none"]
NoHttpResponse == [code |-> 0]
GatewayFrame == UNCHANGED agentSide

\* jsonify(...), 401 / 400 with nothing else done
Refuse(code, message) ==
    /\ http_response' = [code |-> code, status |-> "error", message |-> message]
    /\ broker_calls' = <<>>
    /\ UNCHANGED storeVars

\* ------------------------------------------------------------------------
\* HTTP gateway: placeholder broker functions
\* ------------------------------------------------------------------------
\* uuid.uuid4() never returns a value it returned before; the pools bound
\* the number of sessions.  The uuid of an order or subscription id is stored
\* nowhere and is left abstract.
TokenPool == {"tok1", "tok2"}
SessionIdPool == {"mock_shoonya_session_1", "mock_shoonya_session_2"}
IssuedSessionIds == {active_sessions[t].shoonya_session_id : t \in DOMAIN active_sessions}

\* uuid.uuid4() is called on the success path only
LoginUuids(password) ==
    IF password = "fail_shoonya_login" THEN {""} ELSE SessionIdPool \ IssuedSessionIds
shoonya_login(username, password, client_id, uuid) ==
    IF password = "fail_shoonya_login"
    THEN [status |-> "error", message |-> "Shoonya login failed (mock)"]
    ELSE [status |-> "success", shoonya_session_id |-> uuid]

shoonya_place_order_reporting_fill(shoonya_session_id, order_details) ==
    IF DictGet(order_details, "symbol") = PyStr("FAIL_ORDER")
    THEN [status |-> "error",
          message |-> "Shoonya order placement failed (mock): Invalid symbol",
          order_status |-> "CANCELLED"]
    ELSE [status |-> "success",
          shoonya_order_id |-> "mock_shoonya_order_uuid",
          order_status |-> "FILLED"]
shoonya_place_order(shoonya_session_id, order_details) ==
    IF DictGet(order_details, "symbol") = PyStr("FAIL_ORDER")
    THEN [status |-> "error",
          message |-> "Shoonya order placement failed (mock): Invalid symbol",
          order_status |-> "REJECTED_BROKER"]
    ELSE [status |-> "success",
          shoonya_order_id |-> "mock_shoonya_order_uuid",
          order_status |-> "SENT_TO_BROKER"]

\* f"{inst['exchange']}_{inst['token']}"
GatewayKey(inst) == inst[2].exchange \o "_" \o inst[2].token
\* A quote is represented by its ltp; its other fields are further random
\* numbers handled the same way.
Prices == {1000, 1020}
SubscribedKeys(instruments_to_subscribe) ==
    [i \in 1 .. Len(instruments_to_subscribe) |-> GatewayKey(instruments_to_subscribe[i])]
\* the stores the loop of lines 66-78 can leave behind: a key already present
\* keeps its quote, a new key gets random numbers
StoresAfterSubscribe(instruments_to_subscribe) ==
    LET new == Range(SubscribedKeys(instruments_to_subscribe)) \ DOMAIN mock_market_data_store
    IN  {draw @@ mock_market_data_store : draw \in [new -> [ltp : Prices]]}
shoonya_subscribe_market_data(shoonya_session_id, instruments_to_subscribe) ==
    IF instruments_to_subscribe = <<>>
    THEN [status |-> "error",
          message |-> "Shoonya market data subscription failed (mock): No instruments provided"]
    ELSE [status |-> "success",
          shoonya_subscription_id |-> "mock_shoonya_sub_uuid",
          subscribed_keys |-> SubscribedKeys(instruments_to_subscribe)]

\* ------------------------------------------------------------------------
\* HTTP gateway: authentication decorator
\* ------------------------------------------------------------------------
\* The Authorization header is the sequence of its whitespace-separated
\* words; <<>> is an absent header.  auth_header.split(None, 1)[1] is the
\* second word (headers of the model have at most two).
BearerToken(auth_header) ==
    IF Len(auth_header) >= 1 /\ auth_header[1] = "Bearer" /\ Len(auth_header) >= 2
    THEN Some(auth_header[2])
    ELSE None

token_required_trusting_any_token(auth_header) ==
    LET token == BearerToken(auth_header)
    IN  IF token = None
        THEN [code |-> 401, message |-> "Authentication token is missing or invalid format!"]
        ELSE [code |-> 0,
              current_session_token |-> token[1],
              current_user_session |->
                  IF token[1] \in DOMAIN active_sessions
                  THEN active_sessions[token[1]]
                  ELSE [username |-> "", client_id |-> "", shoonya_session_id |-> ""]]

token_required(auth_header) ==
    LET token == BearerToken(auth_header)
    IN  IF token = None
        THEN [code |-> 401, message |-> "Authentication token is missing or invalid format!"]
        ELSE IF token[1] \notin DOMAIN active_sessions
        THEN [code |-> 401, message |-> "Invalid or expired MCP session token!"]
        ELSE [code |-> 0,
              current_session_token |-> token[1],
              current_user_session |-> active_sessions[token[1]]]

\* ------------------------------------------------------------------------
\* HTTP gateway: POST /connect
\* ------------------------------------------------------------------------
\* all([username, password, client_id]): every credential present and not ""
Credential(data, k) == IF k \in DOMAIN data THEN data[k] ELSE ""
\* POST /connect as it would be if a token could be issued twice.
POST_connect_reusing_token(body) ==
    /\ request' = [route |-> "connect", auth_header |-> <<>>, body |-> body]
    /\ GatewayFrame
    /\ IF NotData(body)
       THEN Refuse(400, "Request body must be JSON")
       ELSE LET data == body[1]
                username == Credential(data, "username")
                password == Credential(data, "password")
                client_id == Credential(data, "client_id")
            IN  IF "" \in {username, password, client_id}
                THEN Refuse(400, "Missing credentials.")
                ELSE \E uuid \in LoginUuids(password) :
                     LET shoonya_auth_result == shoonya_login(username, password, client_id, uuid)
                         login_call == [fn |-> "shoonya_login", username |-> username,
                                        password |-> password, client_id |-> client_id]
                     IN  IF shoonya_auth_result.status = "error"
                         THEN /\ http_response' = [code |-> 401, status |-> "error",
                                                   message |-> "Shoonya auth failed"]
                              /\ broker_calls' = <<login_call>>
                              /\ UNCHANGED storeVars
                         ELSE \E mcp_session_token \in TokenPool :
                              /\ active_sessions' =
                                     Put(active_sessions, mcp_session_token,
                                         [username |-> username, client_id |-> client_id,
                                          shoonya_session_id |-> shoonya_auth_result.shoonya_session_id])
                              /\ http_response' = [code |-> 200, status |-> "success",
                                                   session_token |-> mcp_session_token,
                                                   message |-> "Auth successful."]
                              /\ broker_calls' = <<login_call>>
                              /\ UNCHANGED <<client_subscriptions, mock_market_data_store>>

POST_connect(body) ==
    /\ request' = [route |-> "connect", auth_header |-> <<>>, body |-> body]
    /\ GatewayFrame
    /\ IF NotData(body)
       THEN Refuse(400, "Request body must be JSON")
       ELSE LET data == body[1]
                username == Credential(data, "username")
                password == Credential(data, "password")
                client_id == Credential(data, "client_id")
            IN  IF "" \in {username, password, client_id}
                THEN Refuse(400, "Missing credentials.")
                ELSE \E uuid \in LoginUuids(password) :
                     LET shoonya_auth_result == shoonya_login(username, password, client_id, uuid)
                         login_call == [fn |-> "shoonya_login", username |-> username,
                                        password |-> password, client_id |-> client_id]
                     IN  IF shoonya_auth_result.status = "error"
                         THEN /\ http_response' = [code |-> 401, status |-> "error",
                                                   message |-> "Shoonya auth failed"]
                              /\ broker_calls' = <<login_call>>
                              /\ UNCHANGED storeVars
                         ELSE \E mcp_session_token \in TokenPool \ DOMAIN active_sessions :
                              /\ active_sessions' =
                                     Put(active_sessions, mcp_session_token,
                                         [username |-> username, client_id |-> client_id,
                                          shoonya_session_id |-> shoonya_auth_result.shoonya_session_id])
                              /\ http_response' = [code |-> 200, status |-> "success",
                                                   session_token |-> mcp_session_token,
                                                   message |-> "Auth successful."]
                              /\ broker_calls' = <<login_call>>
                              /\ UNCHANGED <<client_subscriptions, mock_market_data_store>>

\* ------------------------------------------------------------------------
\* HTTP gateway: POST /order
\* ------------------------------------------------------------------------
required_fields ==
    <<"symbol", "exchange", "quantity", "order_type", "transaction_type", "product_type">>
IsMissing(data, field) == field \notin DOMAIN data
missing_fields(data) == SelectSeq(required_fields, LAMBDA field : IsMissing(data, field))

OneOf(data, field, allowed) ==
    \E a \in allowed : DictGet(data, field) = PyStr(a)
Check(failed, message) == IF failed THEN <<message>> ELSE <<>>
QuantityErrors_exclusive_ceiling(quantity) ==
    IF ~IsInt(quantity) \/ IntVal(quantity) <= 0
    THEN <<"Quantity must be a positive integer.">>
    ELSE Check(IntVal(quantity) >= MAX_ORDER_QUANTITY, "Order quantity exceeds maximum allowed.")

\* lines 139-144
QuantityErrors(quantity) ==
    IF ~IsInt(quantity) \/ IntVal(quantity) <= 0
    THEN <<"Quantity must be a positive integer.">>
    ELSE Check(IntVal(quantity) > MAX_ORDER_QUANTITY, "Order quantity exceeds maximum allowed.")
\* lines 146-154; "quantity and ..." is the truth value of quantity
Truthy(v) ==
    CASE v[1] = "NoneType" -> FALSE
      [] v[1] = "str" -> v[2] # ""
      [] v[1] = "bool" -> v[2]
      [] OTHER -> v[2] # 0
PriceErrors_exclusive_limit(data) ==
    LET quantity == DictGet(data, "quantity")
        price == DictGet(data, "price")
        order_type == DictGet(data, "order_type")
    IN  IF order_type \in {PyStr("LIMIT"), PyStr("SL")}
        THEN IF ~IsNumber(price) \/ Tenths(price) <= 0
             THEN <<"Price must be a positive number for LIMIT/SL orders.">>
             ELSE IF Truthy(quantity) /\ IsInt(quantity) /\ IntVal(quantity) > 0
             THEN Check(IntVal(quantity) * Tenths(price) >= 10 * MAX_ORDER_VALUE,
                        "Order value exceeds maximum allowed.")
             ELSE <<>>
        ELSE <<>>

PriceErrors_pricing_stop_market(data) ==
    LET quantity == DictGet(data, "quantity")
        price == DictGet(data, "price")
        order_type == DictGet(data, "order_type")
    IN  IF order_type \in {PyStr("LIMIT"), PyStr("SL"), PyStr("SL-M")}
        THEN IF ~IsNumber(price) \/ Tenths(price) <= 0
             THEN <<"Price must be a positive number for LIMIT/SL orders.">>
             ELSE IF Truthy(quantity) /\ IsInt(quantity) /\ IntVal(quantity) > 0
             THEN Check(IntVal(quantity) * Tenths(price) > 10 * MAX_ORDER_VALUE,
                        "Order value exceeds maximum allowed.")
             ELSE <<>>
        ELSE <<>>

PriceErrors(data) ==
    LET quantity == DictGet(data, "quantity")
        price == DictGet(data, "price")
        order_type == DictGet(data, "order_type")
    IN  IF order_type \in {PyStr("LIMIT"), PyStr("SL")}
        THEN IF ~IsNumber(price) \/ Tenths(price) <= 0
             THEN <<"Price must be a positive number for LIMIT/SL orders.">>
             ELSE IF Truthy(quantity) /\ IsInt(quantity) /\ IntVal(quantity) > 0
             THEN Check(IntVal(quantity) * Tenths(price) > 10 * MAX_ORDER_VALUE,
                        "Order value exceeds maximum allowed.")
             ELSE <<>>
        ELSE <<>>
\* lines 134-154: the errors list after the detailed validations
DetailedErrors(data) ==
    Check(~OneOf(data, "exchange", ALLOWED_EXCHANGES), "Invalid exchange.")
    \o Check(~OneOf(data, "order_type", ALLOWED_ORDER_TYPES), "Invalid order_type.")
    \o Check(~OneOf(data, "transaction_type", ALLOWED_TRANSACTION_TYPES), "Invalid transaction_type.")
    \o Check(~OneOf(data, "product_type", ALLOWED_PRODUCT_TYPES), "Invalid product_type.")
    \o QuantityErrors(DictGet(data, "quantity"))
    \o PriceErrors(data)

\* jsonify({... "order_status": REJECTED_MCP}), 400; message is the list that
\* "; ".join(errors) prints
RejectOrder(errors) ==
    /\ http_response' = [code |-> 400, status |-> "error", message |-> errors,
                         order_status |-> "REJECTED_MCP"]
    /\ broker_calls' = <<>>
    /\ UNCHANGED storeVars

ForwardOrder(data, current_user_session) ==
    LET shoonya_session_id == current_user_session.shoonya_session_id
        shoonya_order_result == shoonya_place_order(shoonya_session_id, data)
    IN  /\ broker_calls' = <<[fn |-> "shoonya_place_order",
                              shoonya_session_id |-> shoonya_session_id,
                              order_details |-> data]>>
        /\ http_response' =
               IF shoonya_order_result.status = "success"
               THEN [code |-> 200, status |-> "success",
                     message |-> <<"Order processing complete.">>,
                     order_status |-> shoonya_order_result.order_status,
                     order_id |-> shoonya_order_result.shoonya_order_id]
               ELSE [code |-> 400, status |-> "error",
                     message |-> <<shoonya_order_result.message>>,
                     order_status |-> shoonya_order_result.order_status]
        /\ UNCHANGED storeVars

app_place_order_forwarding_rejected(body, current_user_session, current_session_token) ==
    IF NotData(body)
    THEN RejectOrder(<<"Request body must be JSON">>)
    ELSE IF missing_fields(body[1]) # <<>>
    THEN RejectOrder(<<"Missing order parameters">>)
    ELSE ForwardOrder(body[1], current_user_session)

app_place_order_stopping_at_first_violation(body, current_user_session, current_session_token) ==
    IF NotData(body)
    THEN RejectOrder(<<"Request body must be JSON">>)
    ELSE IF missing_fields(body[1]) # <<>>
    THEN RejectOrder(<<"Missing order parameters">>)
    ELSE IF DetailedErrors(body[1]) # <<>>
    THEN RejectOrder(<<Head(DetailedErrors(body[1]))>>)
    ELSE ForwardOrder(body[1], current_user_session)

app_place_order(body, current_user_session, current_session_token) ==
    IF NotData(body)
    THEN RejectOrder(<<"Request body must be JSON">>)
    ELSE IF missing_fields(body[1]) # <<>>
    THEN RejectOrder(<<"Missing order parameters">>)
    ELSE IF DetailedErrors(body[1]) # <<>>
    THEN RejectOrder(DetailedErrors(body[1]))
    ELSE ForwardOrder(body[1], current_user_session)

POST_order(auth_header, body) ==
    /\ request' = [route |-> "order", auth_header |-> auth_header, body |-> body]
    /\ GatewayFrame
    /\ LET auth == token_required(auth_header)
       IN  IF auth.code = 401
           THEN Refuse(401, auth.message)
           ELSE app_place_order(body, auth.current_user_session, auth.current_session_token)

\* ------------------------------------------------------------------------
\* HTTP gateway: POST /marketdata/subscribe and GET /marketdata/fetch
\* ------------------------------------------------------------------------
\* isinstance(inst, dict) and all(k in inst for k in ("exchange", "token"))
ValidInstrument(inst) ==
    inst[1] = "dict" /\ {"exchange", "token"} \subseteq DOMAIN inst[2]
\* list.extend(key for key in keys if key not in list): the generator reads
\* the list while extend appends to it
RECURSIVE ExtendUnseen(_, _)
ExtendUnseen(list, keys) ==
    IF keys = <<>> THEN list
    ELSE ExtendUnseen(IF Head(keys) \in Range(list) THEN list ELSE Append(list, Head(keys)),
                      Tail(keys))
\* client_subscriptions.get(token, [])
SubscriptionsOf(subs, token) == IF token \in DOMAIN subs THEN subs[token] ELSE <<>>

\* app_subscribe_market_data as it would be if it left out the instruments
\* that are not well formed and subscribed to the others.
app_subscribe_market_data_skipping_invalid(body, current_user_session, current_session_token) ==
    IF NotData(body)
    THEN Refuse(400, "Request body must be JSON")
    ELSE LET instruments == DictGet(body[1], "instruments")
         IN  IF instruments[1] # "list" \/ instruments[2] = <<>>
             THEN Refuse(400, "Invalid 'instruments' list.")
             ELSE LET valid_instruments == SelectSeq(instruments[2], ValidInstrument)
                      shoonya_session_id == current_user_session.shoonya_session_id
                      tracked == SubscriptionsOf(client_subscriptions, current_session_token)
                      keys == SubscribedKeys(valid_instruments)
                      extended == ExtendUnseen(tracked, keys)
                  IN  IF valid_instruments = <<>>
                      THEN Refuse(400, "No valid instruments.")
                      ELSE /\ broker_calls' = <<[fn |-> "shoonya_subscribe_market_data",
                                                 shoonya_session_id |-> shoonya_session_id,
                                                 instruments_to_subscribe |-> valid_instruments]>>
                           /\ mock_market_data_store' \in StoresAfterSubscribe(valid_instruments)
                           /\ client_subscriptions' =
                                  Put(client_subscriptions, current_session_token, extended)
                           /\ http_response' = [code |-> 200, status |-> "success",
                                                subscription_id |-> "mock_shoonya_sub_uuid",
                                                newly_tracked |-> Len(extended) - Len(tracked),
                                                total |-> Len(extended)]
                           /\ UNCHANGED active_sessions

app_subscribe_market_data(body, current_user_session, current_session_token) ==
    IF NotData(body)
    THEN Refuse(400, "Request body must be JSON")
    ELSE LET instruments == DictGet(body[1], "instruments")
         IN  IF instruments[1] # "list" \/ instruments[2] = <<>>
             THEN Refuse(400, "Invalid 'instruments' list.")
             ELSE IF \E i \in 1 .. Len(instruments[2]) : ~ValidInstrument(instruments[2][i])
             THEN Refuse(400, "Invalid instrument format.")
             ELSE LET valid_instruments == instruments[2]
                      shoonya_session_id == current_user_session.shoonya_session_id
                      shoonya_result ==
                          shoonya_subscribe_market_data(shoonya_session_id, valid_instruments)
                      tracked == SubscriptionsOf(client_subscriptions, current_session_token)
                      keys == shoonya_result.subscribed_keys
                      newly_tracked ==
                          Cardinality({i \in 1 .. Len(keys) : keys[i] \notin Range(tracked)})
                      extended == ExtendUnseen(tracked, keys)
                  IN  /\ broker_calls' = <<[fn |-> "shoonya_subscribe_market_data",
                                            shoonya_session_id |-> shoonya_session_id,
                                            instruments_to_subscribe |-> valid_instruments]>>
                      /\ mock_market_data_store' \in StoresAfterSubscribe(valid_instruments)
                      /\ client_subscriptions' =
                             Put(client_subscriptions, current_session_token, extended)
                      /\ http_response' = [code |-> 200, status |-> "success",
                                           subscription_id |-> shoonya_result.shoonya_subscription_id,
                                           newly_tracked |-> newly_tracked,
                                           total |-> Len(extended)]
                      /\ UNCHANGED active_sessions

POST_marketdata_subscribe(auth_header, body) ==
    /\ request' = [route |-> "subscribe", auth_header |-> auth_header, body |-> body]
    /\ GatewayFrame
    /\ LET auth == token_required(auth_header)
       IN  IF auth.code = 401
           THEN Refuse(401, auth.message)
           ELSE app_subscribe_market_data(body, auth.current_user_session,
                                          auth.current_session_token)

\* app_fetch_market_data as it would be if it returned the whole store.
app_fetch_market_data_returning_store(current_user_session, current_session_token) ==
    /\ mock_market_data_store' \in [DOMAIN mock_market_data_store -> [ltp : Prices]]
    /\ http_response' = [code |-> 200, status |-> "success",
                         data |-> mock_market_data_store', message |-> "Fetched data."]
    /\ broker_calls' = <<>>
    /\ UNCHANGED <<active_sessions, client_subscriptions>>

\* lines 200-207: each quote moves with probability 0.3
app_fetch_market_data(current_user_session, current_session_token) ==
    /\ mock_market_data_store' \in [DOMAIN mock_market_data_store -> [ltp : Prices]]
    /\ LET subscribed_keys == SubscriptionsOf(client_subscriptions, current_session_token)
           returned == Range(subscribed_keys) \cap DOMAIN mock_market_data_store
           data_to_return == [key \in returned |-> mock_market_data_store'[key]]
       IN  http_response' =
               IF subscribed_keys = <<>>
               THEN [code |-> 200, status |-> "success", data |-> <<>>,
                     message |-> "No active subscriptions."]
               ELSE [code |-> 200, status |-> "success", data |-> data_to_return,
                     message |-> "Fetched data."]
    /\ broker_calls' = <<>>
    /\ UNCHANGED <<active_sessions, client_subscriptions>>

GET_marketdata_fetch(auth_header) ==
    /\ request' = [route |-> "fetch", auth_header |-> auth_header, body |-> None]
    /\ GatewayFrame
    /\ LET auth == token_required(auth_header)
       IN  IF auth.code = 401
           THEN Refuse(401, auth.message)
           ELSE app_fetch_market_data(auth.current_user_session, auth.current_session_token)

\* ------------------------------------------------------------------------
\* HTTP gateway: requests
\* ------------------------------------------------------------------------
AuthHeaders ==
    {<<>>, <<"Bearer">>, <<"Basic", "tok1">>, <<"Bearer", "forged">>}
    \cup {<<"Bearer", t>> : t \in TokenPool}

\* the headers sent with the orders of OrderBodies
OrderAuthHeaders ==
    {<<>>, <<"Bearer", "forged">>} \cup {<<"Bearer", t>> : t \in TokenPool}

ConnectBodies ==
    {None,
     Some([username |-> "FA1", password |-> "pw", client_id |-> "c1"]),
     Some([username |-> "FA1", password |-> "fail_shoonya_login", client_id |-> "c1"]),
     Some([username |-> "FA1", client_id |-> "c1"]),
     Some([username |-> "", password |-> "pw", client_id |-> "c1"])}

\* a key the body does not have
Absent == <<"absent">>
With(data, field, value) ==
    IF value = Absent
    THEN [k \in DOMAIN data \ {field} |-> data[k]]
    ELSE [k \in DOMAIN data \cup {field} |-> IF k = field THEN value ELSE data[k]]
\* An order at both risk limits' edge for its price: 4000 x 1250.0 is exactly
\* MAX_ORDER_VALUE.
BaseOrder ==
    [symbol |-> PyStr("SBIN"), exchange |-> PyStr("NSE"), quantity |-> PyInt(4000),
     order_type |-> PyStr("LIMIT"), transaction_type |-> PyStr("BUY"),
     product_type |-> PyStr("CNC"), price |-> PyFloat(12500)]
OrderFields == DOMAIN BaseOrder
Alternatives ==
    [symbol |-> {Absent, PyStr("FAIL_ORDER")},
     exchange |-> {Absent, PyNone, PyStr("LSE")},
     quantity |-> {Absent, PyNone, PyInt(0), PyInt(-5), PyInt(1), PyInt(4001),
                   PyInt(100000), PyInt(100001), PyFloat(100), PyStr("10"), PyBool(TRUE)},
     order_type |-> {Absent, PyStr("MARKET"), PyStr("SL"), PyStr("SL-M"), PyStr("STOP")},
     transaction_type |-> {Absent, PyStr("SELL"), PyStr("HOLD")},
     product_type |-> {Absent, PyStr("MTF"), PyStr("MIS")},
     price |-> {Absent, PyNone, PyInt(0), PyFloat(-10), PyInt(1250), PyFloat(12501),
                PyStr("1250"), PyBool(TRUE)}]
\* A market order at the quantity limit, without a price.
MarketOrder ==
    With(With(With(BaseOrder, "order_type", PyStr("MARKET")), "price", Absent),
         "quantity", PyInt(100000))
\* A limit order that every detailed validation refuses.
RefusedOrder ==
    [symbol |-> PyStr("SBIN"), exchange |-> PyStr("LSE"), quantity |-> PyInt(0),
     order_type |-> PyStr("LIMIT"), transaction_type |-> PyStr("HOLD"),
     product_type |-> PyStr("MIS"), price |-> PyInt(0)]
\* A stop-market order at the quantity limit that carries a price.
StopMarketOrder ==
    With(With(BaseOrder, "order_type", PyStr("SL-M")), "quantity", PyInt(100000))
\* A limit order at both limits: 100000 x 50.0 is exactly MAX_ORDER_VALUE.
CeilingOrder ==
    With(With(BaseOrder, "quantity", PyInt(100000)), "price", PyFloat(500))
BaseOrders == {BaseOrder, MarketOrder, StopMarketOrder, CeilingOrder, RefusedOrder}
\* the orders that differ from data in one field
OneFieldChanged(data) ==
    {With(data, field, value) :
        <<field, value>> \in {<<f, v>> \in OrderFields \X UNION Range(Alternatives) :
                                v \in Alternatives[f]}}
OrderBodies ==
    {None, Some([k \in {} |-> PyNone])}
    \cup {Some(data) : data \in BaseOrders \cup UNION {OneFieldChanged(b) : b \in BaseOrders}}
FewOrderBodies ==
    {None, Some(BaseOrder), Some(With(BaseOrder, "quantity", PyInt(0))),
     Some(With(BaseOrder, "symbol", PyStr("FAIL_ORDER")))}

GatewayInstruments ==
    {PyDict([exchange |-> "NSE", token |-> "22"]),
     PyDict([exchange |-> "NFO", token |-> "35003"]),
     PyDict([exchange |-> "NSE"]),
     PyStr("NSE|22")}
FewSubscribeBodies ==
    {None,
     Some([instruments |-> PyList(<<PyDict([exchange |-> "NSE", token |-> "22"])>>)]),
     Some([instruments |-> PyList(<<PyDict([exchange |-> "NFO", token |-> "35003"]),
                                    PyDict([exchange |-> "NSE", token |-> "22"])>>)]),
     Some([instruments |-> PyList(<<PyDict([exchange |-> "NSE", token |-> "22"]),
                                    PyDict([exchange |-> "NSE"])>>)])}
SubscribeBodies ==
    {None, Some([instruments |-> PyNone]), Some([instruments |-> PyStr("NSE_22")]),
     Some([symbols |-> PyList(<<>>)])}
    \cup {Some([instruments |-> PyList(l)]) :
             l \in UNION {[1 .. n -> GatewayInstruments] : n \in 0 .. MaxInstruments}}

\* ------------------------------------------------------------------------
\* Initial state and specifications
\* ------------------------------------------------------------------------
Init ==
    /\ shoonya_user_token = None
    /\ shoonya_user_id = None
    /\ shoonya_username = None
    /\ connect_pc = "idle"
    /\ ws_call = "none"
    /\ feed_started = FALSE
    /\ websocket_connected = FALSE
    /\ subscribed_instruments_mcp = {}
    /\ _data = <<>>
    /\ heap = <<>>
    /\ lock_locked = FALSE
    /\ notify_pending = None
    /\ loop_queue = <<>>
    /\ feed_pc = "idle"
    /\ feed_tick = NoTick
    /\ held = NoHeld
    /\ emitted = <<>>
    /\ api_calls = <<>>
    /\ response = NoResponse
    /\ tool_call = NoToolCall
    /\ active_sessions = <<>>
    /\ client_subscriptions = <<>>
    /\ mock_market_data_store = <<>>
    /\ request = NoRequest
    /\ http_response = NoHttpResponse
    /\ broker_calls = <<>>

\* The agent: one client's tools on the loop, the feed on its own thread.
Next ==
    \/ \E c \in FeedCredentials : \E r \in LoginOutcomes(c) : connect_shoonya_broker(c, r)
    \/ \E raised \in BOOLEAN : start_websocket_ends(raised)
    \/ connect_after_to_thread
    \/ connect_after_sleep
    \/ _on_websocket_open
    \/ _on_websocket_close
    \/ \E t \in FeedTicks : feed_check(t)
    \/ feed_schedule
    \/ \E l \in InstrumentLists, raises \in BOOLEAN : subscribe_market_feeds(l, raises)
    \/ \E l \in InstrumentLists, raises \in BOOLEAN : unsubscribe_market_feeds(l, raises)
    \/ RunCoroutine
    \/ NotifyReturns

Spec == Init /\ [][Next]_vars

\* The agent's connection and its order tool.
NextOrders ==
    \/ \E c \in Credentials : \E r \in LoginOutcomes(c) : connect_shoonya_broker(c, r)
    \/ \E raised \in BOOLEAN : start_websocket_ends(raised)
    \/ connect_after_to_thread
    \/ connect_after_sleep
    \/ _on_websocket_open
    \/ _on_websocket_close
    \/ \E i \in PlaceOrderInputs, o \in PlaceOrderOutcomes : place_order(i, o)

SpecOrders == Init /\ [][NextOrders]_vars

\* Every tool of the agent, called in any order, with the WebSocket thread's
\* callbacks and the event loop running the scheduled cache updates.
NextTools ==
    \/ \E c \in FeedCredentials : \E r \in LoginOutcomes(c) : connect_shoonya_broker(c, r)
    \/ \E raised \in BOOLEAN : start_websocket_ends(raised)
    \/ connect_after_to_thread
    \/ connect_after_sleep
    \/ _on_websocket_open
    \/ _on_websocket_close
    \/ health_check
    \/ \E l \in ToolInstrumentLists, raises \in BOOLEAN : subscribe_market_feeds(l, raises)
    \/ \E l \in ToolInstrumentLists, raises \in BOOLEAN : unsubscribe_market_feeds(l, raises)
    \/ RunCoroutine
    \/ NotifyReturns
    \/ \E i \in FewPlaceOrderInputs, o \in PlaceOrderOutcomes : place_order(i, o)
    \/ \E o \in ListOutcomes("norenordno") : get_order_book(o)
    \/ \E o \in ListOutcomes("tsym") : get_positions(o)
    \/ \E i \in GetHoldingsInputs, o \in ListOutcomes("tsym") : get_holdings(i, o)
    \/ \E o \in DictOutcomes : get_limits(o)
    \/ \E i \in SearchScripInputs, o \in ValuesOutcomes : search_scrip(i, o)
    \/ \E i \in GetQuotesInputs, o \in DictOutcomes : get_quotes(i, o)
    \/ \E i \in GetOptionChainInputs, o \in ValuesOutcomes : get_option_chain(i, o)
    \/ \E i \in GetTimePriceSeriesInputs, o \in CandleOutcomes : get_time_price_series(i, o)

SpecTools == Init /\ [][NextTools]_vars

\* One session after another: any user connects, the feed opens and closes,
\* instruments are subscribed and unsubscribed, the loop runs the cache updates.
NextSession ==
    \/ \E c \in Credentials : \E r \in LoginOutcomes(c) : connect_shoonya_broker(c, r)
    \/ \E raised \in BOOLEAN : start_websocket_ends(raised)
    \/ connect_after_to_thread
    \/ connect_after_sleep
    \/ _on_websocket_open
    \/ _on_websocket_close
    \/ \E l \in InstrumentLists, raises \in BOOLEAN : subscribe_market_feeds(l, raises)
    \/ \E l \in InstrumentLists, raises \in BOOLEAN : unsubscribe_market_feeds(l, raises)
    \/ RunCoroutine
    \/ NotifyReturns

SpecSession == Init /\ [][NextSession]_vars

\* The agent with a blocking feed loop.  The event loop resumes a coroutine
\* whose await has completed: weak fairness on the two resumptions of
\* connect_shoonya_broker.  Nothing obliges the streaming connection to close.
NextBlockingFeed ==
    \/ \E c \in Credentials : \E r \in LoginOutcomes(c) : connect_shoonya_broker(c, r)
    \/ feed_loop_opens
    \/ feed_loop_closes
    \/ \E raised \in BOOLEAN : feed_loop_ends(raised)
    \/ connect_after_to_thread
    \/ connect_after_sleep
    \/ \E l \in ToolInstrumentLists, raises \in BOOLEAN : subscribe_market_feeds(l, raises)
    \/ \E l \in ToolInstrumentLists, raises \in BOOLEAN : unsubscribe_market_feeds(l, raises)
    \/ RunCoroutine
    \/ NotifyReturns

SpecBlockingFeed ==
    /\ Init
    /\ [][NextBlockingFeed]_vars
    /\ WF_vars(connect_after_to_thread)
    /\ WF_vars(connect_after_sleep)

\* The agent given instrument strings of any shape.
NextAnyKeys ==
    \/ \E c \in FeedCredentials : \E r \in LoginOutcomes(c) : connect_shoonya_broker(c, r)
    \/ \E raised \in BOOLEAN : start_websocket_ends(raised)
    \/ connect_after_to_thread
    \/ connect_after_sleep
    \/ _on_websocket_open
    \/ _on_websocket_close
    \/ \E t \in RequestedKeyTicks : feed_check(t)
    \/ feed_schedule
    \/ \E l \in RequestedKeyLists, raises \in BOOLEAN : subscribe_market_feeds(l, raises)
    \/ RunCoroutine
    \/ NotifyReturns

SpecAnyKeys == Init /\ [][NextAnyKeys]_vars

\* LiveMarketDataResource on its own: coroutines scheduled in any order.
NextResource ==
    \/ \E task \in ResourceTasks : ScheduleCoroutine(task)
    \/ RunCoroutine
    \/ NotifyReturns

SpecResource == Init /\ [][NextResource]_vars

\* Every path through the coroutines of the resource, for one instrument: a
\* stored update, the early return, the two exception paths (a packet that
\* fails validation, a key without separator), insertion and removal.
LoopTasks ==
    {UpdateTask(<<"NSE", "22">>, t) :
        t \in {u \in TouchlineTicks \cup AckTicks : u["e"] = "NSE" /\ u["lp"] = "100.0"}
              \cup MalformedTicks}
    \cup {InitTask(<<"NSE", "22">>), InitTask(<<"NSE">>), RemoveTask(<<"NSE", "22">>)}

\* LiveMarketDataResource on a running event loop: a coroutine that is ready
\* is eventually run, and every notification call returns.
NextLoop ==
    \/ \E task \in LoopTasks : ScheduleCoroutine(task)
    \/ RunCoroutine
    \/ NotifyReturns
    \/ get_instrument_data(<<"NSE", "22">>)
    \/ get_all_data

SpecLoop ==
    /\ Init
    /\ [][NextLoop]_vars
    /\ WF_vars(RunCoroutine)
    /\ WF_vars(NotifyReturns)

\* LiveMarketDataResource and a caller that keeps what the readers return.
NextReaders ==
    \/ \E task \in ReaderTasks : AwaitCoroutine(task)
    \/ NotifyReturns
    \/ \E k \in Instruments : get_instrument_data(k)
    \/ get_all_data
    \/ \E k \in Instruments, p \in CallerPrices : CallerSetsField(k, p)
    \/ \E k \in Instruments : CallerDeletesKey(k)
    \/ \E k \in Instruments : CallerAddsKey(k)
    \/ CallerDrops

SpecReaders == Init /\ [][NextReaders]_vars

\* The HTTP gateway serving any sequence of requests.
NextGateway ==
    \/ \E body \in ConnectBodies : POST_connect(body)
    \/ \E auth_header \in AuthHeaders : \E body \in FewOrderBodies :
           POST_order(auth_header, body)
    \/ \E auth_header \in AuthHeaders : \E body \in FewSubscribeBodies :
           POST_marketdata_subscribe(auth_header, body)
    \/ \E auth_header \in AuthHeaders : GET_marketdata_fetch(auth_header)
SpecGateway == Init /\ [][NextGateway]_vars

\* The HTTP gateway's market-data routes over the instrument lists.
NextGatewayFeeds ==
    \/ \E body \in ConnectBodies : POST_connect(body)
    \/ \E auth_header \in AuthHeaders : \E body \in SubscribeBodies :
           POST_marketdata_subscribe(auth_header, body)
    \/ \E auth_header \in AuthHeaders : GET_marketdata_fetch(auth_header)
SpecGatewayFeeds == Init /\ [][NextGatewayFeeds]_vars

\* Requests to the subscribe route by the holders of the two tokens.
SubscribeAuthHeaders == {<<"Bearer", t>> : t \in TokenPool}
\* Instruments that are well formed, and one without a token.
SubscribeInstruments ==
    {PyDict([exchange |-> "NSE", token |-> "22"]),
     PyDict([exchange |-> "NFO", token |-> "35003"]),
     PyDict([exchange |-> "NSE"])}
\* No body, no list, an empty list, an instrument that is no dict alone and
\* behind a well-formed one, and every list of SubscribeInstruments.
SubscribeRequests ==
    {None, Some([instruments |-> PyNone]), Some([instruments |-> PyStr("NSE_22")]),
     Some([symbols |-> PyList(<<>>)]),
     Some([instruments |-> PyList(<<PyStr("NSE|22")>>)]),
     Some([instruments |-> PyList(<<PyDict([exchange |-> "NFO", token |-> "35003"]),
                                    PyStr("NSE|22")>>)])}
    \cup {Some([instruments |-> PyList(l)]) :
             l \in UNION {[1 .. n -> SubscribeInstruments] : n \in 0 .. MaxInstruments}}

\* The HTTP gateway's subscribe route over the instrument lists.
NextGatewaySubscribe ==
    \/ \E body \in ConnectBodies : POST_connect(body)
    \/ \E auth_header \in SubscribeAuthHeaders : \E body \in SubscribeRequests :
           POST_marketdata_subscribe(auth_header, body)
SpecGatewaySubscribe == Init /\ [][NextGatewaySubscribe]_vars

\* The HTTP gateway's order pipeline over the orders next to a base order.
NextGatewayOrders ==
    \/ \E body \in ConnectBodies : POST_connect(body)
    \/ \E auth_header \in OrderAuthHeaders : \E body \in OrderBodies :
           POST_order(auth_header, body)
SpecGatewayOrders == Init /\ [][NextGatewayOrders]_vars

\* ------------------------------------------------------------------------
\* Properties
\* ------------------------------------------------------------------------
PlaceOrderCalls == {i \in 1 .. Len(api_calls) : api_calls[i].fn = "place_order"}

\* The risk gate of the order pipeline, on the arguments the broker is given
\* (prices are in tenths).
ViolatesRiskGate(args) ==
    \/ args["qty"] <= 0
    \/ args["qty"] > MAX_ORDER_QUANTITY
    \/ /\ args["prctyp"] \in {"LMT", "SL-LMT"}
       /\ args["qty"] * args["prc"] > MAX_ORDER_VALUE * 10

\* C3: the agent's place_order never invokes the broker client's place_order
\* for an order that violates the risk gate (quantity not positive, quantity
\* above the ceiling, or notional above the ceiling for a priced order type).
C3_AgentForwardsOnlyOrdersWithinRiskGate ==
    \A i \in PlaceOrderCalls : ~ViolatesRiskGate(api_calls[i].args)

PendingRemoval(k) == \E i \in 1 .. Len(loop_queue) : loop_queue[i] = RemoveTask(k)

\* C4: once a key is unsubscribed and its removal has been applied, the cache
\* does not contain the key for as long as it stays unsubscribed, whatever the
\* feed thread delivers in between.
C4_UntrackedKeyNotCached ==
    \A k \in Instruments :
        (k \notin subscribed_instruments_mcp /\ ~PendingRemoval(k)) => k \notin DOMAIN _data

\* C10: the feed thread's tick callback is never blocked: once it has passed
\* the tracking test it can hand the update over and return at once, whatever
\* the loop, the lock and the notification in progress are doing.
C10_FeedCallbackNeverWaits == (feed_pc = "schedule") => ENABLED feed_schedule

\* C10 witness: a tick is mid-callback while the lock is held by a coroutine
\* awaiting its notification and another coroutine is queued behind it.
C10_Witness ==
    /\ feed_pc = "schedule"
    /\ lock_locked
    /\ notify_pending # None
    /\ loop_queue # <<>>

\* A step of the loop that runs the oldest scheduled coroutine.
RanHead == loop_queue # <<>> /\ ~lock_locked /\ loop_queue' = Tail(loop_queue)

Qualifies(tick_data) ==
    /\ Get(tick_data, "t") # None
    /\ Get(tick_data, "t")[1] \in DataKinds
    /\ ~ParseFails(tick_data)

\* The fields a packet carries, by the name of the Tick field they populate.
Carried(tick_data) ==
    {f \in TickFields : Given(tick_data, Aliases[f], f) # None}

\* C5: a qualifying update for a key already cached merges field by field:
\* every field the packet carries takes the packet's value and every other
\* field (the receive timestamp aside) keeps the value stored before.
C5_UpdateTickMergesFieldByField ==
    [][\A k \in Instruments :
        (/\ RanHead
         /\ Head(loop_queue).op = "update_tick"
         /\ Head(loop_queue).key = k
         /\ Qualifies(Head(loop_queue).tick)
         /\ k \in DOMAIN _data)
        => /\ k \in DOMAIN _data'
           /\ \A f \in TickFields \ {"mcp_received_timestamp"} :
                CacheView'[k][f] =
                    IF f \in Carried(Head(loop_queue).tick)
                    THEN parse_obj(Head(loop_queue).tick)[f]
                    ELSE CacheView[k][f]]_vars

\* A step in which the caller changes the structure it was given.
CallerChangesResult ==
    \/ \E k \in Instruments, p \in CallerPrices : CallerSetsField(k, p)
    \/ \E k \in Instruments : CallerDeletesKey(k)
    \/ \E k \in Instruments : CallerAddsKey(k)

\* The objects the caller holds, by value.
HeldView == [k \in DOMAIN held.refs |-> heap[held.refs[k]]]

\* C6: whatever the caller does to the structure get_all_data returned
\* (setting a field of one of its Ticks, adding or deleting a key), the cache
\* holds what it held before.
C6_GetAllDataReturnsCopy ==
    [][(held.kind = "dict" /\ CallerChangesResult) => CacheView' = CacheView]_vars

\* C7: a Tick returned by get_instrument_data is independent of the cache:
\* the caller's changes to it never change the cache, and coroutines of the
\* resource never change it.
C7_GetInstrumentDataReturnsCopy ==
    [][/\ (held.kind = "tick" /\ CallerChangesResult) => CacheView' = CacheView
       /\ (held.kind = "tick" /\ held' = held /\ ~CallerChangesResult)
            => HeldView' = HeldView]_vars

\* The notification a mutation of key k must be followed by.
DeltaFor(k) ==
    [key |-> k,
     value |-> IF k \in DOMAIN _data' THEN Some(model_dump(CacheView'[k])) ELSE None]

\* C8: notify_update is called exactly once per accepted mutation, for the
\* mutated key, in the step that mutates; never without a mutation; and no
\* other mutation is applied before that call has returned.
C8_NotifyOncePerMutationInOrder ==
    [][/\ \A k \in Instruments :
            Get(_data', k) # Get(_data, k) => emitted' = <<DeltaFor(k)>>
       /\ _data' = _data => emitted' = <<>>
       /\ notify_pending # None => _data' = _data]_vars

\* C8 witness: a removal has been notified and its delivery is pending while
\* another coroutine waits to mutate the cache.
C8_Witness ==
    /\ notify_pending # None
    /\ Len(emitted) = 1
    /\ emitted[1].value = None
    /\ loop_queue # <<>>
    /\ Head(loop_queue).op = "update_tick"
    /\ Qualifies(Head(loop_queue).tick)

\* C9: the lock is never held while a notification is being delivered.
C9_LockNotHeldWhileNotifying == ~(lock_locked /\ notify_pending # None)


\* ------------------------------------------------------------------------
\* HTTP gateway properties
\* ------------------------------------------------------------------------
\* The request carries no bearer token of a session in the store.
Unauthenticated(auth_header, sessions) ==
    ~\E t \in DOMAIN sessions : auth_header = <<"Bearer", t>>
ProtectedRoutes == {"order", "subscribe", "fetch"}

\* C1: a place-order, subscribe or fetch request whose bearer token is missing
\* or not in the session store is answered 401 and nothing else is done: the
\* reply carries no validation result, no broker function is called, and the
\* session, subscription and market-data stores are as they were.
C1_UnauthenticatedRequestDoesNothing ==
    [][(request'.route \in ProtectedRoutes
        /\ Unauthenticated(request'.auth_header, active_sessions))
       => /\ http_response'.code = 401
          /\ "order_status" \notin DOMAIN http_response'
          /\ broker_calls' = <<>>
          /\ UNCHANGED storeVars]_vars

\* An order that would be forwarded was refused for its token while sessions,
\* subscriptions and quotes exist.
C1_Witness ==
    /\ request.route = "order"
    /\ request.auth_header = <<"Bearer", "forged">>
    /\ request.body = Some(BaseOrder)
    /\ http_response.code = 401
    /\ DOMAIN active_sessions # {}
    /\ DOMAIN client_subscriptions # {}
    /\ DOMAIN mock_market_data_store # {}

\* The list of violations validation yields for a JSON body (lines 123-155).
Violations(data) ==
    IF missing_fields(data) # <<>> THEN <<"Missing order parameters">> ELSE DetailedErrors(data)
OrderBrokerCalls ==
    {i \in 1 .. Len(broker_calls) : broker_calls[i].fn = "shoonya_place_order"}
ValidatedOrder ==
    /\ request.route = "order"
    /\ http_response.code # 401
    /\ ~NotData(request.body)

\* C2: when validation of a place-order request yields violations, the reply
\* is a rejection with order status REJECTED_MCP and the broker's place-order
\* function is not called; the broker is called only for a request without
\* violations.
C2_ViolationsRejectedWithoutBrokerCall ==
    ValidatedOrder =>
        /\ Violations(request.body[1]) # <<>> =>
               /\ http_response.order_status = "REJECTED_MCP"
               /\ http_response.code = 400
               /\ OrderBrokerCalls = {}
        /\ OrderBrokerCalls # {} => Violations(request.body[1]) = <<>>

\* An order breaking the order-value limit alone was rejected locally.
C2_Witness ==
    /\ ValidatedOrder
    /\ request.body = Some(With(BaseOrder, "quantity", PyInt(4001)))
    /\ http_response.order_status = "REJECTED_MCP"
    /\ http_response.message = <<"Order value exceeds maximum allowed.">>
    /\ broker_calls = <<>>


\* ------------------------------------------------------------------------
\* HTTP gateway: order validation properties
\* ------------------------------------------------------------------------
\* The order of the request just handled, once past authentication, with
\* every required field present.
CompleteOrder ==
    /\ ValidatedOrder
    /\ \A i \in 1 .. Len(required_fields) : required_fields[i] \in DOMAIN request.body[1]
OrderField(field) == DictGet(request.body[1], field)
\* a JSON integer (not a boolean, a float or a string)
JsonInteger(v) == v[1] = "int"
RejectedLocally ==
    /\ http_response.order_status = "REJECTED_MCP"
    /\ OrderBrokerCalls = {}
Forwarded ==
    /\ Len(broker_calls) = 1
    /\ broker_calls[1].fn = "shoonya_place_order"
    /\ broker_calls[1].order_details = request.body[1]

\* C11: an order with every required field whose quantity is zero, negative
\* or not an integer is rejected with status REJECTED_MCP and the broker's
\* place-order function is not called.
C11_BadQuantityRejectedLocally ==
    (CompleteOrder
     /\ (~JsonInteger(OrderField("quantity")) \/ OrderField("quantity")[2] <= 0))
    => RejectedLocally


ValidEnumerations ==
    /\ \E a \in ALLOWED_EXCHANGES : OrderField("exchange") = PyStr(a)
    /\ \E a \in ALLOWED_ORDER_TYPES : OrderField("order_type") = PyStr(a)
    /\ \E a \in ALLOWED_TRANSACTION_TYPES : OrderField("transaction_type") = PyStr(a)
    /\ \E a \in ALLOWED_PRODUCT_TYPES : OrderField("product_type") = PyStr(a)
\* order types validated without a price
Unpriced == OrderField("order_type") \in {PyStr("MARKET"), PyStr("SL-M")}
\* a JSON number (an integer or a float), in tenths
JsonNumber(v) == v[1] \in {"int", "float"}
NumberTenths(v) == IF v[1] = "int" THEN 10 * v[2] ELSE v[2]
\* the price rule leaves the order alone at this quantity
PriceAllows(quantity) ==
    \/ Unpriced
    \/ /\ JsonNumber(OrderField("price"))
       /\ NumberTenths(OrderField("price")) > 0
       /\ quantity * NumberTenths(OrderField("price")) <= 10 * 5000000

\* C12: an order that is valid apart from its quantity passes validation and
\* is forwarded unchanged when its quantity is exactly 100,000, and is
\* rejected locally when its quantity is 100,001 or more.
C12_QuantityCeilingInclusive ==
    (CompleteOrder /\ JsonInteger(OrderField("quantity"))) =>
        /\ (OrderField("quantity")[2] = 100000 /\ ValidEnumerations /\ PriceAllows(100000))
               => Forwarded
        /\ OrderField("quantity")[2] >= 100001 => RejectedLocally

\* A limit order at 100,000 whose value is exactly the value limit was forwarded.
C12_Witness ==
    /\ CompleteOrder
    /\ request.body = Some(CeilingOrder)
    /\ Forwarded
    /\ http_response.order_status = "SENT_TO_BROKER"


\* order types validated with a price
Priced == OrderField("order_type") \in {PyStr("LIMIT"), PyStr("SL")}

\* C13: a LIMIT or stop-limit order with a valid quantity and a positive
\* price passes validation exactly when quantity x price is at most
\* 5,000,000, and is rejected locally otherwise.
C13_OrderValueCeilingInclusive ==
    (/\ CompleteOrder /\ ValidEnumerations /\ Priced
     /\ JsonInteger(OrderField("quantity"))
     /\ OrderField("quantity")[2] \in 1 .. 100000
     /\ JsonNumber(OrderField("price"))
     /\ NumberTenths(OrderField("price")) > 0)
    => IF OrderField("quantity")[2] * NumberTenths(OrderField("price")) <= 10 * 5000000
       THEN Forwarded
       ELSE RejectedLocally

\* A stop-limit order of 4,000 at 1,250.0 was forwarded.
C13_Witness ==
    /\ CompleteOrder
    /\ request.body = Some(With(BaseOrder, "order_type", PyStr("SL")))
    /\ Forwarded


\* the order of the request without its price field
Unquoted == With(request.body[1], "price", Absent)

\* C14: for a MARKET or stop-market order the outcome of validation is the
\* one the same order has without a price field: the price, whether absent,
\* null, zero, negative, not a number or beyond the value limit, adds no
\* violation and removes none.
C14_UnpricedOrdersIgnorePrice ==
    (ValidatedOrder /\ Unpriced) =>
        IF Violations(Unquoted) = <<>>
        THEN Forwarded
        ELSE RejectedLocally /\ http_response.message = Violations(Unquoted)

\* A stop-market order with a negative price was forwarded.
C14_Witness ==
    /\ ValidatedOrder
    /\ request.body = Some(With(StopMarketOrder, "price", PyFloat(-10)))
    /\ Forwarded


\* What each rule reports for the order on its own, in the order of the rules.
RuleReports(data) ==
    <<Check(~OneOf(data, "exchange", ALLOWED_EXCHANGES), "Invalid exchange."),
      Check(~OneOf(data, "order_type", ALLOWED_ORDER_TYPES), "Invalid order_type."),
      Check(~OneOf(data, "transaction_type", ALLOWED_TRANSACTION_TYPES),
            "Invalid transaction_type."),
      Check(~OneOf(data, "product_type", ALLOWED_PRODUCT_TYPES), "Invalid product_type."),
      QuantityErrors(DictGet(data, "quantity")),
      PriceErrors(data)>>
RECURSIVE Flatten(_)
Flatten(seqs) == IF seqs = <<>> THEN <<>> ELSE Head(seqs) \o Flatten(Tail(seqs))

\* C15: the rejection of an order lists what every broken rule reports, in
\* rule order; but when a required field is missing the rejection carries
\* the missing-fields error alone, whatever else is wrong with the order.
C15_AllViolationsCollected ==
    ValidatedOrder =>
        IF \E i \in 1 .. Len(required_fields) : required_fields[i] \notin DOMAIN request.body[1]
        THEN RejectedLocally /\ http_response.message = <<"Missing order parameters">>
        ELSE (\E i \in 1 .. 6 : RuleReports(request.body[1])[i] # <<>>)
             => /\ RejectedLocally
                /\ http_response.message = Flatten(RuleReports(request.body[1]))

\* An order breaking five rules (exchange, transaction_type, product_type,
\* quantity and price) was rejected with the five messages.
C15_Witness ==
    /\ ValidatedOrder
    /\ request.body = Some(RefusedOrder)
    /\ RejectedLocally
    /\ http_response.message = <<"Invalid exchange.", "Invalid transaction_type.",
                                 "Invalid product_type.",
                                 "Quantity must be a positive integer.",
                                 "Price must be a positive number for LIMIT/SL orders.">>


\* C16: every reply to a place-order request, whichever path produced it
\* (authentication failure, missing body, validation failure, broker
\* acceptance or rejection), carries an order status, and that status is one
\* of the defined order states.
C16_EveryOrderOutcomeHasOrderStatus ==
    request.route = "order" =>
        /\ "order_status" \in DOMAIN http_response
        /\ http_response.order_status \in ORDER_STATUSES


ReportedOrderState ==
    IF "order_status" \in DOMAIN response THEN response.order_status ELSE response.status

\* C18: when the agent's place_order has called the broker and returns no
\* order id (the broker rejected the order, returned no verdict or raised),
\* the outcome reports REJECTED_BROKER or ERROR as the order's state.
C18_BrokerFailureMappedToOrderState ==
    (/\ tool_call.tool = "place_order"
     /\ api_calls # <<>>
     /\ response.order_id = None)
        => ReportedOrderState \in {"REJECTED_BROKER", "ERROR"}


\* The broker's name for each field of an order given to the agent.
BrokerName ==
    [buy_or_sell |-> "trantype", product_type |-> "prd", exchange |-> "exch",
     tradingsymbol |-> "tsym", quantity |-> "qty", discloseqty |-> "dscqty",
     price_type |-> "prctyp", price |-> "prc", trigger_price |-> "trgprc",
     retention |-> "ret", amo |-> "amo", remarks |-> "remarks"]
OptionalOrderFields == {"trigger_price", "remarks"}
\* the fields the caller gave a value
GivenFields(tool_input) ==
    {f \in DOMAIN tool_input : f \in OptionalOrderFields => tool_input[f] # None}
GivenValue(tool_input, f) ==
    IF f \in OptionalOrderFields THEN tool_input[f][1] ELSE tool_input[f]

\* C19: after a place_order call on a connected agent the broker client has
\* been called exactly once, whatever the broker answered, and that call is
\* place_order with the caller's fields under the broker's names plus the
\* account id of the logged-in user, and nothing else.
C19_BrokerInvokedExactlyOnce ==
    (tool_call.tool = "place_order" /\ shoonya_user_token # None) =>
        /\ Len(api_calls) = 1
        /\ api_calls[1].fn = "place_order"
        /\ DOMAIN api_calls[1].args
               = {BrokerName[f] : f \in GivenFields(tool_call.tool_input)} \cup {"actid"}
        /\ \A f \in GivenFields(tool_call.tool_input) :
               api_calls[1].args[BrokerName[f]] = GivenValue(tool_call.tool_input, f)
        /\ api_calls[1].args["actid"] = shoonya_user_id

\* An order placed while connected came back as an error, after one call.
C19_Witness ==
    /\ tool_call.tool = "place_order"
    /\ shoonya_user_token # None
    /\ response.status = "error"
    /\ Len(api_calls) = 1
    /\ api_calls[1].args["actid"] = shoonya_user_id


\* The tools that need a broker session: all but connect_shoonya_broker and
\* health_check.
SessionTools ==
    {"subscribe_market_feeds", "unsubscribe_market_feeds", "place_order",
     "get_order_book", "get_positions", "get_holdings", "get_limits", "search_scrip",
     "get_quotes", "get_option_chain", "get_time_price_series"}

\* C20: a call of a tool other than connect_shoonya_broker and health_check
\* made while the agent holds no session token returns the 'Not connected'
\* error, makes no call on the broker client and leaves the agent's fields,
\* the market data cache and the event loop's queue as they were.
C20_NoSessionNoBrokerCall ==
    [][(shoonya_user_token = None /\ tool_call'.tool \in SessionTools)
           => /\ response' = NotConnected
              /\ api_calls' = <<>>
              /\ UNCHANGED <<agentVars, resourceVars, loop_queue>>]_vars

\* A query tool was refused for want of a session.
C20_Witness ==
    /\ shoonya_user_token = None
    /\ tool_call.tool \in SessionTools \ {"place_order"}
    /\ response = NotConnected
    /\ api_calls = <<>>


\* The calls on the broker client made in the step that ends in api_calls'.
CallsOf(fn) == {i \in 1 .. Len(api_calls') : api_calls'[i].fn = fn}
\* connect_shoonya_broker goes on to start the feed: the login succeeded.
LoginSucceeds == connect_pc = "idle" /\ connect_pc' = "to_thread"
\* connect_shoonya_broker returns after its sleep.
ConnectReturnsAfterSleep == connect_pc = "sleep" /\ connect_pc' = "idle"
\* the login response of a step in which the login succeeded
AcceptedLogins ==
    {r \in LoginOutcomes(tool_call'.tool_input) : ~r.raised /\ StatOk(r)}

LoginFails ==
    /\ connect_pc = "idle"
    /\ tool_call'.tool = "connect_shoonya_broker"
    /\ response'.status = "error"
\* connect_shoonya_broker returns an error after a successful login: the feed
\* start raised, or the feed was not open after the sleep.
FeedStartFails ==
    /\ connect_pc # "idle"
    /\ connect_pc' = "idle"
    /\ response'.status = "error"

\* C22: when connect_shoonya_broker returns an error the agent holds no
\* session token and no user id and websocket_connected is false; and when it
\* was the login that failed, login was called once and start_websocket was
\* not called.
C22_FailedConnectLeavesDisconnected ==
    [][/\ (LoginFails \/ FeedStartFails) =>
             /\ shoonya_user_token' = None
             /\ shoonya_user_id' = None
             /\ ~websocket_connected'
       /\ LoginFails =>
             /\ Cardinality(CallsOf("login")) = 1
             /\ CallsOf("start_websocket") = {}]_vars

\* A connect call failed at the feed after an earlier one had succeeded.
C22_Witness ==
    /\ connect_pc = "idle"
    /\ response \in {[status |-> "error", message |-> "WebSocket failed to open"],
                     [status |-> "error", message |-> "WebSocket startup failed"]}
    /\ shoonya_user_token = None
    /\ shoonya_user_id = None
    /\ ~websocket_connected
    /\ feed_started


\* C23: a connect call on an agent that holds a session token and whose feed
\* is open returns success with the user id and user name already stored,
\* calls nothing on the broker client and leaves the token, the identity, the
\* tracked set and the cache as they were, whatever credentials it is given.
C23_ConnectIdempotentOnceConnected ==
    [][(/\ shoonya_user_token # None
        /\ websocket_connected
        /\ tool_call'.tool = "connect_shoonya_broker")
           => /\ response'.status = "success"
              /\ response'.user_id = shoonya_user_id
              /\ response'.username = shoonya_username
              /\ api_calls' = <<>>
              /\ UNCHANGED <<sessionVars, websocket_connected,
                             subscribed_instruments_mcp, resourceVars>>]_vars

\* A connected agent tracking an instrument answered a connect call made with
\* another user's credentials.
C23_Witness ==
    /\ tool_call.tool = "connect_shoonya_broker"
    /\ Some(tool_call.tool_input.user_id) # shoonya_user_id
    /\ response.status = "success"
    /\ response.user_id = shoonya_user_id
    /\ subscribed_instruments_mcp # {}
    /\ _data # <<>>


\* C24: with a feed loop that blocks while the streaming connection is open,
\* a connect call whose login succeeded and whose feed has opened eventually
\* returns success while the feed loop is still running.
C24_ConnectReturnsWhileFeedRuns ==
    (connect_pc = "to_thread" /\ ws_call = "running" /\ websocket_connected)
        ~> (/\ connect_pc = "idle"
            /\ response.status = "success"
            /\ ws_call = "running")


\* The connect request of the step carries no usable credentials: no JSON
\* body, or a credential absent or empty.
CredentialsMissing ==
    \/ request'.body = None
    \/ DOMAIN request'.body[1] = {}
    \/ \E k \in {"username", "password", "client_id"} :
           k \notin DOMAIN request'.body[1] \/ request'.body[1][k] = ""

\* C25: a connect request answered 200 has called the broker login and adds
\* one session, under the token it returns, which was not in the store; the
\* sessions already there are unchanged.  A connect request answered otherwise
\* leaves the store as it was, and without credentials the broker login is not
\* called.  No other route changes the store of sessions.
C25_SessionOnlyFromSuccessfulLogin ==
    [][/\ request'.route # "connect" => UNCHANGED active_sessions
       /\ request'.route = "connect" =>
             /\ IF http_response'.code = 200
                THEN /\ http_response'.session_token \notin DOMAIN active_sessions
                     /\ DOMAIN active_sessions'
                            = DOMAIN active_sessions \cup {http_response'.session_token}
                     /\ \A t \in DOMAIN active_sessions :
                            active_sessions'[t] = active_sessions[t]
                     /\ Len(broker_calls') = 1
                     /\ broker_calls'[1].fn = "shoonya_login"
                     /\ broker_calls'[1].password # "fail_shoonya_login"
                ELSE UNCHANGED active_sessions
             /\ CredentialsMissing =>
                    (broker_calls' = <<>> /\ http_response'.code = 400)]_vars

\* A second session has been added next to the first.
C25_Witness ==
    /\ request.route = "connect"
    /\ http_response.code = 200
    /\ Cardinality(DOMAIN active_sessions) = 2
    /\ http_response.session_token \in DOMAIN active_sessions


\* C26: once the agent's session has ended (it holds no session token, or the
\* feed connection is closed) no instrument key is tracked and the cache
\* holds no entry.
C26_TrackedKeysClearedAtSessionEnd ==
    (shoonya_user_token = None \/ ~websocket_connected)
        => (subscribed_instruments_mcp = {} /\ _data = <<>>)


\* The instruments of the subscribe call made in this step.
Requested == tool_call'.tool_input.instruments
\* the call refused: an error, no call on the broker client, the tracked set,
\* the cache and the loop's queue as they were
SubscribeRefused ==
    /\ response'.status = "error"
    /\ api_calls' = <<>>
    /\ UNCHANGED <<subscribed_instruments_mcp, resourceVars, loop_queue>>
\* every requested key tracked, initialize_instrument handed to the loop for
\* each in order, every requested key returned
SubscribeAccepted ==
    /\ response'.status = "success"
    /\ response'.requested_instruments = Requested
    /\ \A i \in 1 .. Len(Requested) : Requested[i] \in subscribed_instruments_mcp'
    /\ loop_queue' = loop_queue \o [i \in 1 .. Len(Requested) |-> InitTask(Requested[i])]
\* the broker's subscribe was called and failed: an error, nothing tracked
SubscribeFailedAtBroker ==
    /\ response'.status = "error"
    /\ UNCHANGED <<subscribed_instruments_mcp, resourceVars, loop_queue>>

\* C27, as claimed: a subscribe call is refused when the agent holds no token
\* or the feed is not open, and is accepted in full otherwise.
C27_SubscribeAcceptedWheneverConnected ==
    [][tool_call'.tool = "subscribe_market_feeds" =>
           IF shoonya_user_token = None \/ ~websocket_connected
           THEN SubscribeRefused
           ELSE SubscribeAccepted]_vars

\* C27, amended: a subscribe call is refused when the agent holds no token or
\* the feed is not open; otherwise the broker's subscribe is called once with
\* the requested list, and the call is accepted in full unless the broker's
\* subscribe failed, in which case an error is returned and nothing is tracked.
C27_SubscribeRequiresOpenSession ==
    [][tool_call'.tool = "subscribe_market_feeds" =>
           IF shoonya_user_token = None \/ ~websocket_connected
           THEN SubscribeRefused
           ELSE /\ api_calls' = <<Call("subscribe", [instrument_list |-> Requested])>>
                /\ SubscribeAccepted \/ SubscribeFailedAtBroker]_vars

\* Two instruments were subscribed in one call and both are tracked.
C27_Witness ==
    /\ tool_call.tool = "subscribe_market_feeds"
    /\ response.status = "success"
    /\ Len(response.requested_instruments) = 2
    /\ \A i \in 1 .. 2 : response.requested_instruments[i] \in subscribed_instruments_mcp
    /\ Len(loop_queue) = 2


\* The cache entry of a key that has been initialised and has received nothing.
InitialisedOnly(k) ==
    /\ k \in DOMAIN _data
    /\ heap[_data[k]] = [EmptyTick EXCEPT !.exchange = Some(k[1]), !.token = Some(k[2])]

\* C28: when subscribe_market_feeds has returned success the cache holds each
\* requested key, with its exchange and token only, and when
\* unsubscribe_market_feeds has returned success the cache holds none of the
\* keys it was given.
C28_CacheFollowsSubscriptionAtReturn ==
    /\ (tool_call.tool = "subscribe_market_feeds" /\ response.status = "success") =>
           \A i \in 1 .. Len(tool_call.tool_input.instruments) :
               InitialisedOnly(tool_call.tool_input.instruments[i])
    /\ (tool_call.tool = "unsubscribe_market_feeds" /\ response.status = "success") =>
           \A i \in 1 .. Len(tool_call.tool_input.instruments) :
               tool_call.tool_input.instruments[i] \notin DOMAIN _data


\* The event loop runs the coroutine at the head of its queue in this step.
LoopRuns(op) ==
    /\ loop_queue # <<>>
    /\ loop_queue' = Tail(loop_queue)
    /\ Head(loop_queue).op = op

\* C29: initialize_instrument on a key the cache lacks inserts an entry with
\* the exchange and token of the key and nothing else, leaves the other
\* entries alone and notifies once, with that entry; on a key the cache holds
\* it changes neither the cache nor any entry and notifies nothing.
C29_InitializeIdempotent ==
    [][LoopRuns("initialize_instrument") =>
           LET k == Head(loop_queue).key
           IN  IF k \in DOMAIN _data
               THEN /\ UNCHANGED <<_data, heap>>
                    /\ emitted' = <<>>
               ELSE /\ DOMAIN _data' = DOMAIN _data \cup {k}
                    /\ heap'[_data'[k]]
                           = [EmptyTick EXCEPT !.exchange = Some(k[1]), !.token = Some(k[2])]
                    /\ \A j \in DOMAIN _data :
                           _data'[j] = _data[j] /\ heap'[_data[j]] = heap[_data[j]]
                    /\ emitted' = <<[key |-> k, value |-> Some(KeyFields(k))]>>]_vars

\* A key absent from a cache that holds another instrument's tick was
\* initialised and announced.
C29_Witness ==
    /\ \E k \in Instruments :
           /\ InitialisedOnly(k)
           /\ emitted = <<[key |-> k, value |-> Some(KeyFields(k))]>>
    /\ \E j \in DOMAIN _data : heap[_data[j]].last_traded_price # None


\* The packet declares neither of the two data-carrying kinds.
NotDataKind(tick_data) ==
    "t" \notin DOMAIN tick_data \/ tick_data["t"] \notin {"tf", "df"}

\* C30: update_tick on a packet whose kind is not 'tf' or 'df', or that has no
\* kind, leaves the cache and every entry as they were, whether or not the
\* key is cached, and notifies nothing.
C30_NonDataTickIgnored ==
    [][(LoopRuns("update_tick") /\ NotDataKind(Head(loop_queue).tick))
           => /\ UNCHANGED <<_data, heap>>
              /\ emitted' = <<>>]_vars

\* The loop is about to run update_tick on an acknowledgement packet for a key
\* whose entry holds a price, with another such packet for an absent key behind it.
C30_Witness ==
    /\ ~lock_locked
    /\ Len(loop_queue) = 2
    /\ \A i \in 1 .. 2 :
           loop_queue[i].op = "update_tick" /\ NotDataKind(loop_queue[i].tick)
    /\ loop_queue[1].key \in DOMAIN _data
    /\ heap[_data[loop_queue[1].key]].last_traded_price # None
    /\ loop_queue[2].key \notin DOMAIN _data


\* The packets the feed has delivered for key k that the cache has not yet
\* taken, oldest first: the update_tick coroutines waiting on the loop.
Undelivered(k) ==
    SelectSeq(loop_queue, LAMBDA task : task.op = "update_tick" /\ task.key = k)

\* C31: ingestion is last-write-wins in delivery order.  The feed thread puts
\* each packet behind every packet delivered before it; the queue is only
\* ever extended at its tail or shortened at its head; an entry of the cache
\* changes only in the step that runs the oldest waiting coroutine, for that
\* coroutine's key; and when that coroutine is a qualifying update, the entry
\* of its key (one object, the value of the dict at that key) and the
\* notification made in that step carry the packet's value in every field
\* the packet carries.
C31_LastWriteWinsInDeliveryOrder ==
    [][/\ (feed_pc = "schedule" /\ feed_pc' = "idle") =>
              loop_queue' = Append(loop_queue,
                                   UpdateTask(InstrumentKeyOf(feed_tick)[1], feed_tick))
       /\ \/ loop_queue # <<>> /\ loop_queue' = Tail(loop_queue)
          \/ \E n \in 0 .. MaxQueue :
                 /\ Len(loop_queue') = Len(loop_queue) + n
                 /\ SubSeq(loop_queue', 1, Len(loop_queue)) = loop_queue
       /\ \A k \in Instruments :
              Get(_data', k) # Get(_data, k) => (RanHead /\ Head(loop_queue).key = k)
       /\ (LoopRuns("update_tick") /\ Qualifies(Head(loop_queue).tick)) =>
              LET k == Head(loop_queue).key
                  t == Head(loop_queue).tick
              IN  /\ k \in DOMAIN _data'
                  /\ \A f \in Carried(t) : CacheView'[k][f] = parse_obj(t)[f]
                  /\ Len(emitted') = 1
                  /\ emitted'[1].key = k
                  /\ emitted'[1].value # None
                  /\ \A f \in Carried(t) :
                         Get(emitted'[1].value[1], Aliases[f]) = parse_obj(t)[f]]_vars

\* Two different qualifying packets for one tracked key, whose entry already
\* holds a price, wait in delivery order and the loop is free to run them.
C31_Witness ==
    /\ ~lock_locked
    /\ \E k \in subscribed_instruments_mcp :
           /\ Len(Undelivered(k)) = 2
           /\ Undelivered(k)[1].tick # Undelivered(k)[2].tick
           /\ \A i \in 1 .. 2 : Qualifies(Undelivered(k)[i].tick)
           /\ k \in DOMAIN _data
           /\ heap[_data[k]].last_traded_price # None


\* C32: remove_instrument on a key the cache holds deletes that entry and
\* notifies once, mapping the key to None; on a key the cache lacks it changes
\* nothing and notifies nothing; either way every other key keeps its entry,
\* object and field values alike.
C32_RemoveDeletesAndNotifiesOnce ==
    [][LoopRuns("remove_instrument") =>
           LET k == Head(loop_queue).key
           IN  /\ IF k \in DOMAIN _data
                  THEN /\ DOMAIN _data' = DOMAIN _data \ {k}
                       /\ emitted' = <<[key |-> k, value |-> None]>>
                  ELSE /\ UNCHANGED <<_data, heap>>
                       /\ emitted' = <<>>
               /\ \A j \in DOMAIN _data \ {k} :
                      /\ j \in DOMAIN _data'
                      /\ _data'[j] = _data[j]
                      /\ heap'[_data[j]] = heap[_data[j]]]_vars

\* A removal has just been announced for a key that is gone from a cache
\* still holding the other instrument's tick, and a removal of the key now
\* absent is next on the loop.
C32_Witness ==
    \E k \in Instruments :
        /\ emitted = <<[key |-> k, value |-> None]>>
        /\ k \notin DOMAIN _data
        /\ \E j \in DOMAIN _data : heap[_data[j]].last_traded_price # None
        /\ loop_queue # <<>>
        /\ Head(loop_queue) = RemoveTask(k)


\* The packet declares a data-carrying kind and fails validation.
Malformed(tick_data) == ~NotDataKind(tick_data) /\ ParseFails(tick_data)

\* C33: update_tick on a packet of kind 'tf' or 'df' that fails validation
\* ends without an error reaching anyone: the cache and every entry are as
\* they were, nothing is notified, no tool reports anything, and the lock is
\* free again, so that the next coroutine can run; and a qualifying update
\* run by the loop is stored and notified whatever was run before it.
C33_MalformedTickSwallowed ==
    [][/\ (LoopRuns("update_tick") /\ Malformed(Head(loop_queue).tick))
              => /\ UNCHANGED <<_data, heap>>
                 /\ emitted' = <<>>
                 /\ response' = NoResponse
                 /\ ~lock_locked'
                 /\ notify_pending' = None
       /\ (LoopRuns("update_tick") /\ Qualifies(Head(loop_queue).tick))
              => /\ Head(loop_queue).key \in DOMAIN _data'
                 /\ model_dump(CacheView'[Head(loop_queue).key])
                        = model_dump([parse_obj(Head(loop_queue).tick) EXCEPT
                                          !.mcp_received_timestamp = Some(LoopTime)])
                 /\ Len(emitted') = 1]_vars

\* The loop is about to run update_tick on a malformed packet for a key whose
\* entry holds a price, with a qualifying packet for the same key behind it.
C33_Witness ==
    /\ ~lock_locked
    /\ Len(loop_queue) = 2
    /\ \A i \in 1 .. 2 : loop_queue[i].op = "update_tick"
    /\ Malformed(loop_queue[1].tick)
    /\ Qualifies(loop_queue[2].tick)
    /\ loop_queue[1].key = loop_queue[2].key
    /\ loop_queue[1].key \in DOMAIN _data
    /\ heap[_data[loop_queue[1].key]].last_traded_price # None


\* An instrument key with exactly an exchange part and a token part, neither
\* empty.
WellFormedKey(k) == Len(k) = 2 /\ k[1] # "" /\ k[2] # ""

\* C34: every key of the cache is a well-formed instrument key, and the Tick
\* stored under it records the key's exchange and token.
C34_CacheKeysWellFormed ==
    \A k \in DOMAIN _data :
        /\ WellFormedKey(k)
        /\ heap[_data[k]].exchange = Some(k[1])
        /\ heap[_data[k]].token = Some(k[2])


\* A step of the caller-facing context: a tool is entered, or
\* connect_shoonya_broker resumes from an await.
CallerFacingStep == tool_call'.tool # "none" \/ connect_pc' # connect_pc

\* C35: nothing but the cache and the tracked set is shared between the feed
\* thread and the caller-facing context, and both are used under the lock:
\* the connection flag the tools read is written by the caller-facing context
\* only; and the tracked set is written by a tool, and tested by the feed
\* thread, only when the lock is not held by somebody else.
C35_SharedStateOnlyUnderLock ==
    [][/\ websocket_connected' # websocket_connected => CallerFacingStep
       /\ subscribed_instruments_mcp' # subscribed_instruments_mcp => ~lock_locked
       /\ (feed_pc = "idle" /\ feed_pc' = "schedule") => ~lock_locked]_vars


\* The keys the token of the request just served has subscribed to.
OwnKeys == Range(SubscriptionsOf(client_subscriptions, request.auth_header[2]))

\* C36: a fetch answered 200 returns quotes for keys of the caller's own
\* subscription list only, each with the quote the store holds for it, and
\* an empty map to a caller without subscriptions, whatever other sessions
\* have subscribed to.
C36_FetchReturnsOwnSubscriptionsOnly ==
    (request.route = "fetch" /\ http_response.code = 200) =>
        /\ DOMAIN http_response.data \subseteq OwnKeys
        /\ \A key \in DOMAIN http_response.data :
               http_response.data[key] = mock_market_data_store[key]
        /\ OwnKeys = {} => http_response.data = <<>>

\* A session fetched its one quote while the store also holds a quote only
\* another session subscribed to.
C36_Witness ==
    /\ request.route = "fetch"
    /\ http_response.code = 200
    /\ Cardinality(DOMAIN http_response.data) = 1
    /\ \E t \in DOMAIN client_subscriptions :
           /\ t # request.auth_header[2]
           /\ \E key \in Range(client_subscriptions[t]) :
                  key \in DOMAIN mock_market_data_store /\ key \notin OwnKeys


\* C37: whenever the agent reports the feed as open it holds a session token.
C37_OpenFeedImpliesSession == websocket_connected => shoonya_user_token # None


\* The tool entered in this step called the broker client's subscribe or
\* unsubscribe and the call raised.
BrokerCallRaised ==
    /\ tool_call'.tool \in {"subscribe_market_feeds", "unsubscribe_market_feeds"}
    /\ api_calls' # <<>>
    /\ response'.status = "error"

\* C38: when the broker client's subscribe or unsubscribe raises, the tool
\* returns an error having called the broker once, and the tracked set, the
\* cache, its entries and the coroutines scheduled on the loop are as they
\* were: nothing is recorded, initialised or removed for any requested key.
C38_BrokerFailureLeavesTrackingUntouched ==
    [][/\ BrokerCallRaised =>
              /\ Len(api_calls') = 1
              /\ UNCHANGED <<subscribed_instruments_mcp, _data, heap, loop_queue>>
       /\ \A fn \in {"subscribe", "unsubscribe"} :
              (CallsOf(fn) # {} /\ response'.status # "error") =>
                  response'.status = "success"]_vars

\* An unsubscribe whose broker call raised has returned its error while the
\* requested key is still tracked and cached and the other instrument is
\* neither.
C38_Witness ==
    /\ tool_call.tool = "unsubscribe_market_feeds"
    /\ response = [status |-> "error", message |-> "exception during unsubscribe"]
    /\ Len(api_calls) = 1
    /\ \E k \in Elems(tool_call.tool_input.instruments) :
           k \in subscribed_instruments_mcp /\ k \in DOMAIN _data
    /\ \E k \in Instruments : k \notin subscribed_instruments_mcp /\ k \notin DOMAIN _data


\* C39: a coroutine of the resource holds the lock only while its
\* notification call is outstanding: every other path (the early return, an
\* exception, a key already present or absent, a reader) leaves the lock
\* free in the step that ran it.  So a held lock is always released again,
\* and every coroutine scheduled on the loop is eventually run: the queue
\* empties again and again, or its oldest coroutine is run again and again.
C39_LockAlwaysReleased ==
    /\ [](lock_locked <=> notify_pending # None)
    /\ lock_locked ~> ~lock_locked
    /\ \/ []<>(loop_queue = <<>>)
       \/ []<><<loop_queue # <<>> /\ loop_queue' = Tail(loop_queue)>>_vars

\* The lock is held by a coroutine awaiting its notification while two more
\* wait on the loop, a reader having taken and released the lock before.
C39_Witness ==
    /\ lock_locked
    /\ Len(loop_queue) = MaxQueue
    /\ held.kind # "none"


\* A subscribe body the gateway must refuse: none, no 'instruments', a value
\* that is not a list, an empty list, or a list in which some instrument is
\* not a dict with an exchange and a token.
MalformedSubscribe(body) ==
    \/ body = None
    \/ "instruments" \notin DOMAIN body[1]
    \/ body[1].instruments[1] # "list"
    \/ body[1].instruments[2] = <<>>
    \/ \E i \in 1 .. Len(body[1].instruments[2]) :
           LET inst == body[1].instruments[2][i]
           IN  \/ inst[1] # "dict"
               \/ "exchange" \notin DOMAIN inst[2]
               \/ "token" \notin DOMAIN inst[2]

NoDuplicates(list) ==
    \A i, j \in 1 .. Len(list) : list[i] = list[j] => i = j

\* C40: an authenticated subscribe request with a malformed body is answered
\* 400 with no broker function called and the subscription lists and the
\* quote store as they were, wherever in the list the malformed instrument
\* stands; a well-formed one is answered 200 after one broker call, and the
\* caller's list is its old list followed by the requested keys it did not
\* hold, each once, the other callers' lists being as they were.
C40_SubscribeAllOrNothing ==
    [][(request'.route = "subscribe"
        /\ ~Unauthenticated(request'.auth_header, active_sessions)) =>
           LET token == request'.auth_header[2]
               old == SubscriptionsOf(client_subscriptions, token)
               new == SubscriptionsOf(client_subscriptions', token)
           IN  IF MalformedSubscribe(request'.body)
               THEN /\ http_response'.code = 400
                    /\ broker_calls' = <<>>
                    /\ UNCHANGED storeVars
               ELSE LET requested ==
                            {GatewayKey(request'.body[1].instruments[2][i]) :
                                i \in 1 .. Len(request'.body[1].instruments[2])}
                    IN  /\ http_response'.code = 200
                        /\ Len(broker_calls') = 1
                        /\ SubSeq(new, 1, Len(old)) = old
                        /\ Range(new) = Range(old) \cup requested
                        /\ NoDuplicates(new)
                        /\ \A t \in DOMAIN client_subscriptions \ {token} :
                               client_subscriptions'[t] = client_subscriptions[t]]_vars

\* A list whose first instrument is well formed and unknown to the store and
\* whose second lacks its token was refused to a caller that holds a
\* subscription.
C40_Witness ==
    /\ request.route = "subscribe"
    /\ http_response.code = 400
    /\ request.body # None
    /\ "instruments" \in DOMAIN request.body[1]
    /\ request.body[1].instruments[1] = "list"
    /\ Len(request.body[1].instruments[2]) = 2
    /\ ValidInstrument(request.body[1].instruments[2][1])
    /\ ~ValidInstrument(request.body[1].instruments[2][2])
    /\ GatewayKey(request.body[1].instruments[2][1]) \notin DOMAIN mock_market_data_store
    /\ SubscriptionsOf(client_subscriptions, request.auth_header[2]) # <<>>

============================================================================
